---- MODULE Spec2Model ----
(***************************************************************************)
(* Key-management service: the key lifecycle engine (KeyService), the      *)
(* encryption_keys store behind it (KeyRepository), the KMS client and the *)
(* error mapping of the HTTP handlers.                                     *)
(*                                                                         *)
(* Every request runs on its own goroutine.  A request is a sequence of    *)
(* blocking calls (one SQL statement or one KMS call each); each such call *)
(* is one atomic step of the model and requests interleave between them.   *)
(***************************************************************************)
EXTENDS Integers, Sequences, FiniteSets, Bags, TLC

\* ------------------------------------------------------------------ bounds
MaxCalls == 4          \* requests issued in one behaviour
NumSlots == 2          \* requests in flight at the same time
NumKeys == 2           \* distinct values the CSPRNG can produce
MaxGenArg == 2         \* largest generation number a request names
MaxRequests == 2       \* requests issued in one behaviour of HandlerSpec
MaxRuns == 2           \* keyctl migrate runs in one behaviour of MigrationSpec
MaxAdds == 1           \* entries added to the migrations directory

\* ------------------------------------------------------- program constants
keySize == 32
maxTenantIDLen == 64

Tenants == {"t1", "t2"}
Generations == 1..MaxGenArg

KeyStatusActive == "active"
KeyStatusDisabled == "disabled"

\* error values: a context prefix added by fmt.Errorf("...: %w") and the
\* cause at the end of the chain
NoErr == [ctx |-> "", cause |-> "nil"]
ErrKeyNotFound == [ctx |-> "", cause |-> "ErrKeyNotFound"]
ErrKeyAlreadyExists == [ctx |-> "", cause |-> "ErrKeyAlreadyExists"]
ErrKeyDisabled == [ctx |-> "", cause |-> "ErrKeyDisabled"]
ErrKeyAlreadyDisabled == [ctx |-> "", cause |-> "ErrKeyAlreadyDisabled"]
ErrInvalidTenantID == [ctx |-> "", cause |-> "ErrInvalidTenantID"]
ErrInvalidGeneration == [ctx |-> "", cause |-> "ErrInvalidGeneration"]
\* causes raised outside the domain package
DBError == "db error"                      \* connection / context / SQL failure
DuplicateEntry == "duplicate entry"        \* uk_tenant_generation violated
KMSError == "kms error"
RandError == "generating random key"

Wrapf(ctx, cause) == [ctx |-> ctx, cause |-> cause]
ErrorsIs(err, target) == err.cause = target.cause

Nil == [nil |-> TRUE]

\* -------------------------------------------------------------------- KMS
Plaintexts == {[len |-> keySize, val |-> k] : k \in 1..NumKeys}
Encrypt(plaintext) == [wrapped |-> plaintext]
Decrypt(ciphertext) == ciphertext.wrapped

\* store: the encryption_keys table; clock: the database clock; calls: the
\* requests in flight; started: requests issued so far; generated: for the
\* properties, the plaintext that each successful insert had wrapped
VARIABLES store, clock, calls, started, generated

\* dir: the entries of the migrations directory; recorded: the rows of
\* schema_migrations; effects: the migration files whose statements are
\* committed, with the time of the commit; runs: the keyctl migrate
\* processes under way; added: entries put into the directory so far; and
\* for the properties, lastRun: how the most recent ApplyMigrations ended,
\* inOrder: every file was added with a version above all those on disk
VARIABLES dir, recorded, effects, runs, added, lastRun, inOrder
\* the keyctl process of one shell: its flags, its position, its exit code
VARIABLES cli

keyVars == <<store, calls, generated>>
migVars == <<dir, recorded, effects, runs, added, lastRun, inOrder>>
cliVars == <<cli>>
vars == <<store, clock, calls, started, generated,
          dir, recorded, effects, runs, added, lastRun, inOrder, cli>>

\* ------------------------------------------------------------- repository
TenantRows(st, t) == {r \in st : r.tenant_id = t}

\* mutant: the existence check counts active rows only
ExistsByTenantID_activeOnly(st, t) ==
    Cardinality({r \in TenantRows(st, t) : r.status = KeyStatusActive}) > 0

\* mutant: the existence check forgets the tenant and counts every row
ExistsByTenantID_anyTenant(st, t) == Cardinality(st) > 0

ExistsByTenantID(st, t) == Cardinality(TenantRows(st, t)) > 0

GenerationsOf(st, t) == {r.generation : r \in TenantRows(st, t)}

\* mutant: MAX(generation) is taken over the active rows only
GetMaxGeneration_activeOnly(st, t) ==
    LET act == {r.generation : r \in {q \in TenantRows(st, t) : q.status = KeyStatusActive}}
    IN  IF act = {} THEN 0
        ELSE CHOOSE g \in act : \A h \in act : h <= g

GetMaxGeneration(st, t) ==
    IF TenantRows(st, t) = {} THEN 0
    ELSE CHOOSE g \in GenerationsOf(st, t) : \A h \in GenerationsOf(st, t) : h <= g

\* First(&model): the matching row with the smallest primary key, or nil
FirstById(rows) ==
    IF rows = {} THEN Nil
    ELSE CHOOSE r \in rows : \A q \in rows : r.id <= q.id

\* mutant: the lookup forgets the tenant and selects by generation alone
FindByTenantIDAndGeneration_anyTenant(st, t, g) ==
    FirstById({r \in st : r.generation = g})

FindByTenantIDAndGeneration(st, t, g) ==
    FirstById({r \in TenantRows(st, t) : r.generation = g})

\* mutant: the latest generation whatever its status
FindLatestActiveByTenantID_anyStatus(st, t) ==
    LET act == TenantRows(st, t)
    IN  FirstById({r \in act : \A q \in act : q.generation <= r.generation})

FindLatestActiveByTenantID(st, t) ==
    LET act == {r \in TenantRows(st, t) : r.status = KeyStatusActive}
    IN  FirstById({r \in act : \A q \in act : q.generation <= r.generation})

RECURSIVE OrderByGenerationAsc(_)
OrderByGenerationAsc(rows) ==
    IF rows = {} THEN <<>>
    ELSE LET lo == CHOOSE r \in rows :
                     \A q \in rows : r.generation < q.generation
                                     \/ (r.generation = q.generation /\ r.id <= q.id)
         IN  <<lo>> \o OrderByGenerationAsc(rows \ {lo})

\* mutant: the listing query also filters on status = active
FindAllByTenantID_activeOnly(st, t) ==
    OrderByGenerationAsc({r \in TenantRows(st, t) : r.status = KeyStatusActive})

FindAllByTenantID(st, t) == OrderByGenerationAsc(TenantRows(st, t))

\* BeforeCreate: a fresh UUID (rows are never deleted, so the count is fresh)
NewUUID(st) == Cardinality(st) + 1

\* mutant: the table has no unique index on (tenant_id, generation)
ViolatesUniqueIndex_dropped(st, t, g) == FALSE

\* the unique index uk_tenant_generation (tenant_id, generation)
ViolatesUniqueIndex(st, t, g) == \E r \in st : r.tenant_id = t /\ r.generation = g

\* mutant: INSERT ... ON DUPLICATE KEY UPDATE, which reports no error
Create_upsert(st, key, now) ==
    LET model == [id |-> NewUUID(st), tenant_id |-> key.tenant_id,
                  generation |-> key.generation,
                  encrypted_key |-> key.encrypted_key, status |-> key.status,
                  created_at |-> now, updated_at |-> now]
        old == {r \in st : r.tenant_id = key.tenant_id /\ r.generation = key.generation}
    IN  [err |-> "nil", store |-> (st \ old) \cup {model}, key |-> model]

\* mutant: the insert also retires the tenant's older generations
Create_supersede(st, key, now) ==
    LET model == [id |-> NewUUID(st), tenant_id |-> key.tenant_id,
                  generation |-> key.generation,
                  encrypted_key |-> key.encrypted_key, status |-> key.status,
                  created_at |-> now, updated_at |-> now]
        retired == {IF r.tenant_id = key.tenant_id
                    THEN [r EXCEPT !.status = KeyStatusDisabled, !.updated_at = now]
                    ELSE r : r \in st}
    IN  IF \E r \in st : r.tenant_id = key.tenant_id /\ r.generation = key.generation
        THEN [err |-> DuplicateEntry, store |-> st, key |-> Nil]
        ELSE [err |-> "nil", store |-> retired \cup {model}, key |-> model]

\* Create: INSERT one row; the result carries the error (or nil), the new
\* table and the entity with id / created_at / updated_at filled in
Create(st, key, now) ==
    LET model == [id |-> NewUUID(st), tenant_id |-> key.tenant_id,
                  generation |-> key.generation,
                  encrypted_key |-> key.encrypted_key, status |-> key.status,
                  created_at |-> now, updated_at |-> now]
    IN  IF ViolatesUniqueIndex(st, key.tenant_id, key.generation)
        THEN [err |-> DuplicateEntry, store |-> st, key |-> Nil]
        ELSE [err |-> "nil", store |-> st \cup {model}, key |-> model]

\* mutant: the row is deleted instead of being marked disabled
UpdateStatus_delete(st, id, status, now) == {r \in st : r.id # id}

\* mutant: disabling also wipes the wrapped key of the row
UpdateStatus_scrub(st, id, status, now) ==
    {IF r.id = id THEN [r EXCEPT !.status = status, !.updated_at = now,
                                 !.encrypted_key = Nil]
     ELSE r : r \in st}

\* mutant: the update selects by the tenant of the row instead of by its id
UpdateStatus_byTenant(st, id, status, now) ==
    LET tenants == {r.tenant_id : r \in {q \in st : q.id = id}}
    IN  {IF r.tenant_id \in tenants
         THEN [r EXCEPT !.status = status, !.updated_at = now] ELSE r : r \in st}

\* UpdateStatus: UPDATE encryption_keys SET status=?, updated_at=? WHERE id=?
UpdateStatus(st, id, status, now) ==
    {IF r.id = id THEN [r EXCEPT !.status = status, !.updated_at = now] ELSE r : r \in st}

\* ---------------------------------------------------------------- handler
\* path parameters are strings: sequences of one-character strings
LowerCase == {"a", "b", "c", "d", "e", "f", "g", "h", "i", "j", "k", "l", "m",
              "n", "o", "p", "q", "r", "s", "t", "u", "v", "w", "x", "y", "z"}
UpperCase == {"A", "B", "C", "D", "E", "F", "G", "H", "I", "J", "K", "L", "M",
              "N", "O", "P", "Q", "R", "S", "T", "U", "V", "W", "X", "Y", "Z"}
DigitChars == <<"0", "1", "2", "3", "4", "5", "6", "7", "8", "9">>
Digits == {DigitChars[i] : i \in 1..10}
DigitValue(ch) == (CHOOSE i \in 1..10 : DigitChars[i] = ch) - 1

\* regexp `^[a-zA-Z0-9_-]+$`
tenantIDRegex(str) ==
    /\ Len(str) >= 1
    /\ \A i \in 1..Len(str) : str[i] \in LowerCase \cup UpperCase \cup Digits \cup {"_", "-"}

\* mutant: the length of the tenant id is not limited
validateTenantID_noLimit(tenantID) ==
    IF tenantID = <<>> THEN ErrInvalidTenantID
    ELSE IF ~tenantIDRegex(tenantID) THEN ErrInvalidTenantID
    ELSE NoErr

validateTenantID(tenantID) ==
    IF tenantID = <<>> THEN ErrInvalidTenantID
    ELSE IF Len(tenantID) > maxTenantIDLen THEN ErrInvalidTenantID
    ELSE IF ~tenantIDRegex(tenantID) THEN ErrInvalidTenantID
    ELSE NoErr

\* strconv.ParseUint(s, 10, 32): a syntax error for the empty string or any
\* character that is not a decimal digit (signs included), a range error
\* above 2^32 - 1, decided on the digits; else the value
MaxUint32Digits == <<4, 2, 9, 4, 9, 6, 7, 2, 9, 5>>
RECURSIVE TrimZeros(_)
TrimZeros(str) ==
    IF str # <<>> /\ Head(str) = "0" THEN TrimZeros(Tail(str)) ELSE str
RECURSIVE LexLeq(_, _)
LexLeq(a, b) ==
    IF a = <<>> THEN TRUE
    ELSE IF Head(a) # Head(b) THEN Head(a) < Head(b)
    ELSE LexLeq(Tail(a), Tail(b))
RECURSIVE DecimalValue(_, _)
DecimalValue(str, acc) ==
    IF str = <<>> THEN acc
    ELSE DecimalValue(Tail(str), acc * 10 + DigitValue(Head(str)))
ParseUint(str) ==
    IF str = <<>> \/ \E i \in 1..Len(str) : str[i] \notin Digits
    THEN [val |-> 0, err |-> "syntax"]
    ELSE LET t == TrimZeros(str)
             ds == [i \in 1..Len(t) |-> DigitValue(t[i])]
         IN  IF Len(t) > Len(MaxUint32Digits)
                \/ (Len(t) = Len(MaxUint32Digits) /\ ~LexLeq(ds, MaxUint32Digits))
             THEN [val |-> 0, err |-> "range"]
             ELSE [val |-> DecimalValue(t, 0), err |-> "nil"]

validateGeneration(genStr) ==
    LET r == ParseUint(genStr)
    IN  IF r.err # "nil" \/ r.val < 1
        THEN [gen |-> 0, err |-> ErrInvalidGeneration]
        ELSE [gen |-> r.val, err |-> NoErr]

\* middleware.WriteAuditLog: the event written (its wall-clock timestamp is
\* left out)
WriteAuditLog(operation, tenantID, generation, result) ==
    [operation |-> operation, tenant_id |-> tenantID,
     generation |-> generation, result |-> result]

\* the operation name each handler passes to WriteAuditLog
AuditOperation(op) ==
    CASE op = "CreateKey" -> "CREATE_KEY"
      [] op = "GetCurrentKey" -> "GET_CURRENT_KEY"
      [] op = "GetKeyByGeneration" -> "GET_KEY_BY_GENERATION"
      [] op = "RotateKey" -> "ROTATE_KEY"
      [] op = "ListKeys" -> "LIST_KEYS"
      [] op = "DisableKey" -> "DISABLE_KEY"

\* routes whose path has a {generation} parameter
GenOps == {"DisableKey", "GetKeyByGeneration"}

\* mutant: the key-returning handlers log a number taken from the key bytes
AuditGeneration_fromKey(op, generation, err, ret) ==
    IF err = NoErr /\ op \in {"GetCurrentKey", "GetKeyByGeneration"}
    THEN ret.key.val
    ELSE IF op \in GenOps THEN generation
    ELSE IF err = NoErr /\ op \in {"CreateKey", "RotateKey"} THEN ret.generation
    ELSE 0

\* the generation each handler passes to WriteAuditLog
AuditGeneration(op, generation, err, ret) ==
    IF op \in GenOps THEN generation
    ELSE IF err = NoErr /\ op \in {"CreateKey", "RotateKey", "GetCurrentKey"}
         THEN ret.generation
    ELSE 0

\* mutant: the handlers write the audit event on success only
HandlerAudit_successOnly(op, tenantID, generation, err, ret) ==
    IF err = NoErr
    THEN <<WriteAuditLog(AuditOperation(op), tenantID,
                         AuditGeneration(op, generation, err, ret), "SUCCESS")>>
    ELSE <<>>

\* the audit events a handler writes once the service method has returned
HandlerAudit(op, tenantID, generation, err, ret) ==
    <<WriteAuditLog(AuditOperation(op), tenantID,
                    AuditGeneration(op, generation, err, ret),
                    IF err = NoErr THEN "SUCCESS" ELSE "FAILED")>>

\* mutant: GetKeyByGeneration has no branch for a disabled key
HandlerResponse_noGone(op, err) ==
    IF err = NoErr THEN
        [status |-> (CASE op \in {"CreateKey", "RotateKey"} -> 201
                       [] op = "DisableKey" -> 202
                       [] OTHER -> 200),
         code |-> ""]
    ELSE IF op = "CreateKey" /\ ErrorsIs(err, ErrKeyAlreadyExists)
        THEN [status |-> 409, code |-> "KEY_ALREADY_EXISTS"]
    ELSE IF op \in {"GetCurrentKey", "GetKeyByGeneration", "RotateKey", "DisableKey"}
            /\ ErrorsIs(err, ErrKeyNotFound)
        THEN [status |-> 404, code |-> "KEY_NOT_FOUND"]
    ELSE IF op = "DisableKey" /\ ErrorsIs(err, ErrKeyAlreadyDisabled)
        THEN [status |-> 409, code |-> "KEY_ALREADY_DISABLED"]
    ELSE [status |-> 500, code |-> "INTERNAL_ERROR"]

\* status and code written by the handler of each route for a service error
HandlerResponse(op, err) ==
    IF err = NoErr THEN
        [status |-> (CASE op \in {"CreateKey", "RotateKey"} -> 201
                       [] op = "DisableKey" -> 202
                       [] OTHER -> 200),
         code |-> ""]
    ELSE IF op = "CreateKey" /\ ErrorsIs(err, ErrKeyAlreadyExists)
        THEN [status |-> 409, code |-> "KEY_ALREADY_EXISTS"]
    ELSE IF op \in {"GetCurrentKey", "GetKeyByGeneration", "RotateKey", "DisableKey"}
            /\ ErrorsIs(err, ErrKeyNotFound)
        THEN [status |-> 404, code |-> "KEY_NOT_FOUND"]
    ELSE IF op = "GetKeyByGeneration" /\ ErrorsIs(err, ErrKeyDisabled)
        THEN [status |-> 410, code |-> "KEY_DISABLED"]
    ELSE IF op = "DisableKey" /\ ErrorsIs(err, ErrKeyAlreadyDisabled)
        THEN [status |-> 409, code |-> "KEY_ALREADY_DISABLED"]
    ELSE [status |-> 500, code |-> "INTERNAL_ERROR"]

\* mutant: the 500 body carries the text of the underlying error
HandlerMessage_leak(op, err) ==
    IF err = NoErr THEN ""
    ELSE IF op = "CreateKey" /\ ErrorsIs(err, ErrKeyAlreadyExists)
        THEN "key already exists for this tenant"
    ELSE IF op \in {"GetCurrentKey", "RotateKey"} /\ ErrorsIs(err, ErrKeyNotFound)
        THEN "key not found for this tenant"
    ELSE IF op \in {"GetKeyByGeneration", "DisableKey"} /\ ErrorsIs(err, ErrKeyNotFound)
        THEN "key not found for this tenant and generation"
    ELSE IF op = "GetKeyByGeneration" /\ ErrorsIs(err, ErrKeyDisabled)
        THEN "key has been disabled"
    ELSE IF op = "DisableKey" /\ ErrorsIs(err, ErrKeyAlreadyDisabled)
        THEN "key is already disabled"
    ELSE err.cause

\* the message each handler passes to httputil.Error ("" when it writes no
\* error body)
HandlerMessage(op, err) ==
    IF err = NoErr THEN ""
    ELSE IF op = "CreateKey" /\ ErrorsIs(err, ErrKeyAlreadyExists)
        THEN "key already exists for this tenant"
    ELSE IF op \in {"GetCurrentKey", "RotateKey"} /\ ErrorsIs(err, ErrKeyNotFound)
        THEN "key not found for this tenant"
    ELSE IF op \in {"GetKeyByGeneration", "DisableKey"} /\ ErrorsIs(err, ErrKeyNotFound)
        THEN "key not found for this tenant and generation"
    ELSE IF op = "GetKeyByGeneration" /\ ErrorsIs(err, ErrKeyDisabled)
        THEN "key has been disabled"
    ELSE IF op = "DisableKey" /\ ErrorsIs(err, ErrKeyAlreadyDisabled)
        THEN "key is already disabled"
    ELSE "internal server error"

\* ---------------------------------------------------------------- service
Ops == {"CreateKey", "RotateKey", "DisableKey", "GetCurrentKey",
        "GetKeyByGeneration", "ListKeys"}

\* one request: its arguments, its position, the locals of the service
\* method (exists, maxGen, key, plainKey, encryptedKey), what it returned,
\* and observations kept for the properties: kmsCalls, and startMax /
\* startExists / startStatus, the tenant's MaxGeneration, its having a record
\* and the status of the record (tenant, generation) when it was issued
IdleCall ==
    [op |-> "none", tenant |-> "none", generation |-> 0, pc |-> "idle",
     exists |-> FALSE, maxGen |-> 0, key |-> Nil,
     plainKey |-> Nil, encryptedKey |-> Nil,
     err |-> NoErr, ret |-> Nil, resp |-> Nil,
     kmsCalls |-> 0, startMax |-> 0, startExists |-> FALSE, startStatus |-> "none",
     audit |-> <<>>, message |-> ""]

\* the service method returns (the key material it held is dropped) and the
\* handler maps the error to the response
Return(c, err, ret) ==
    [c EXCEPT !.pc = "done", !.err = err, !.ret = ret,
              !.resp = HandlerResponse(c.op, err),
              !.message = HandlerMessage(c.op, err),
              !.audit = HandlerAudit(c.op, c.tenant, c.generation, err, ret),
              !.key = Nil, !.plainKey = Nil, !.encryptedKey = Nil]

\* mutant: the metadata carries the key material of the row
KeyMetadata_leak(key) ==
    [tenant_id |-> key.tenant_id, generation |-> key.generation,
     status |-> key.status, created_at |-> key.created_at,
     encrypted_key |-> key.encrypted_key]

KeyMetadata(key) ==
    [tenant_id |-> key.tenant_id, generation |-> key.generation,
     status |-> key.status, created_at |-> key.created_at]

Key(key, plainKey) ==
    [tenant_id |-> key.tenant_id, generation |-> key.generation, key |-> plainKey]

\* mutants: generations counted from 0; rotation skipping a generation;
\* rotation without the check for an existing key
InitialGeneration_zero == 1 - 1
NewGen_skip(maxGen) == maxGen + 2
NoExistingKey_never(maxGen) == FALSE

\* CreateKey always writes generation 1; RotateKey writes maxGen + 1
InitialGeneration == 1
NewGen(maxGen) == maxGen + 1

\* RotateKey's "if maxGen == 0": no key to rotate
NoExistingKey(maxGen) == maxGen = 0

\* the entity CreateKey / RotateKey hand to repo.Create
NewEncryptionKey(tenantID, generation, encryptedKey) ==
    [tenant_id |-> tenantID, generation |-> generation,
     encrypted_key |-> encryptedKey, status |-> KeyStatusActive]

\* the requests in flight: a bag, since two requests can be in the same state
InFlight == BagToSet(calls)
Replace(c, d) == (calls (-) SetToBag({c})) (+) SetToBag({d})

\* no run has ended yet
NoRun == [ok |-> FALSE, scanned |-> {}]
\* no keyctl process yet; exit is -1 until the process has exited
IdleCli ==
    [pc |-> "idle", cmd |-> "none", badFlag |-> FALSE, tenantSet |-> FALSE,
     tenantID |-> "", genSet |-> FALSE, generation |-> 0, apiURLFlag |-> "",
     env |-> "", apiURL |-> "", output |-> "text", route |-> "",
     transportErr |-> FALSE, status |-> 0, readErr |-> FALSE,
     hasMessage |-> FALSE, parses |-> FALSE, err |-> "nil", exit |-> -1]

\* an empty database, started against the migrations directory d
InitWith(d) ==
    /\ store = {}
    /\ clock = 0
    /\ calls = EmptyBag
    /\ started = 0
    /\ generated = {}
    /\ dir = d
    /\ recorded = {}
    /\ effects = {}
    /\ runs = EmptyBag
    /\ added = 0
    /\ lastRun = NoRun
    /\ inOrder = TRUE
    /\ cli = IdleCli

Init == InitWith({})

\* the request of a handler that found its path parameters valid
NewCall(op, t, g) ==
    [IdleCall EXCEPT !.op = op, !.tenant = t, !.generation = g,
                     !.pc = "start",
                     !.startMax = GetMaxGeneration(store, t),
                     !.startExists = \E r \in store : r.tenant_id = t,
                     !.startStatus =
                        IF \E r \in store : r.tenant_id = t /\ r.generation = g
                        THEN (CHOOSE r \in store : r.tenant_id = t
                                                   /\ r.generation = g).status
                        ELSE "none"]

\* a request arrives and is dispatched to its handler (path parameters that
\* pass validation)
Invoke(op, t, g) ==
    /\ started < MaxCalls
    /\ BagCardinality(calls) < NumSlots
    /\ started' = started + 1
    /\ calls' = calls (+) SetToBag({NewCall(op, t, g)})
    /\ UNCHANGED <<store, clock, generated>>

\* the response has been written; the goroutine ends
Respond(c) ==
    /\ c.pc = "done"
    /\ calls' = calls (-) SetToBag({c})
    /\ UNCHANGED <<store, clock, started, generated>>

\* generateAESKey, then kmsClient.Encrypt: the request states that can follow.
\* Neither touches the table, so they are taken in the step of the statement
\* before them.
GenerateAndEncrypt(c) ==
    {Return(c, Wrapf("", RandError), Nil),
     Return([c EXCEPT !.kmsCalls = @ + 1], Wrapf("encrypting key", KMSError), Nil)}
    \cup {[c EXCEPT !.plainKey = p, !.kmsCalls = @ + 1,
                    !.encryptedKey = Encrypt(p), !.pc = "insert"] : p \in Plaintexts}

\* mutant: the key is returned although kmsClient.Decrypt failed
DecryptKey_keyOnError(c, key) ==
    {Return([c EXCEPT !.kmsCalls = @ + 1], Wrapf("decrypting key", KMSError),
            Key(key, Decrypt(key.encrypted_key))),
     Return([c EXCEPT !.kmsCalls = @ + 1], NoErr, Key(key, Decrypt(key.encrypted_key)))}

\* kmsClient.Decrypt of the row that was found, and the return of the key
DecryptKey(c, key) ==
    {Return([c EXCEPT !.kmsCalls = @ + 1], Wrapf("decrypting key", KMSError), Nil),
     Return([c EXCEPT !.kmsCalls = @ + 1], NoErr, Key(key, Decrypt(key.encrypted_key)))}

\* ---- CreateKey
CreateKeyExists(c) ==
    /\ c.op = "CreateKey" /\ c.pc = "start"
    /\ \/ calls' = Replace(c, Return(c, Wrapf("checking existing key", DBError), Nil))
       \/ /\ ExistsByTenantID(store, c.tenant)
          /\ calls' = Replace(c, Return([c EXCEPT !.exists = TRUE],
                                        ErrKeyAlreadyExists, Nil))
       \/ /\ ~ExistsByTenantID(store, c.tenant)
          /\ \E d \in GenerateAndEncrypt([c EXCEPT !.exists = FALSE]) :
                calls' = Replace(c, d)
    /\ UNCHANGED <<store, clock, started, generated>>

\* repo.Create of the entity built by the service method
InsertKey(c, opname, gen) ==
    LET key == NewEncryptionKey(c.tenant, gen, c.encryptedKey)
        res == Create(store, key, clock + 1)
    IN
    /\ c.op = opname /\ c.pc = "insert"
    /\ \E dbErr \in BOOLEAN :
         IF dbErr THEN
            /\ calls' = Replace(c, Return(c, Wrapf("creating key", DBError), Nil))
            /\ UNCHANGED <<store, clock, generated>>
         ELSE IF res.err # "nil" THEN
            /\ calls' = Replace(c, Return(c, Wrapf("creating key", res.err), Nil))
            /\ UNCHANGED <<store, clock, generated>>
         ELSE
            /\ store' = res.store
            /\ clock' = clock + 1
            /\ generated' = generated \cup {[tenant_id |-> c.tenant, generation |-> gen,
                                              plainKey |-> c.plainKey]}
            /\ calls' = Replace(c, Return(c, NoErr, KeyMetadata(res.key)))
    /\ UNCHANGED started

CreateKeyInsert(c) == InsertKey(c, "CreateKey", InitialGeneration)

\* ---- RotateKey
RotateKeyGetMax(c) ==
    LET m == GetMaxGeneration(store, c.tenant) IN
    /\ c.op = "RotateKey" /\ c.pc = "start"
    /\ \/ calls' = Replace(c, Return(c, Wrapf("getting max generation", DBError), Nil))
       \/ /\ NoExistingKey(m)
          /\ calls' = Replace(c, Return([c EXCEPT !.maxGen = m], ErrKeyNotFound, Nil))
       \/ /\ ~NoExistingKey(m)
          /\ \E d \in GenerateAndEncrypt([c EXCEPT !.maxGen = m]) :
                calls' = Replace(c, d)
    /\ UNCHANGED <<store, clock, started, generated>>

RotateKeyInsert(c) == InsertKey(c, "RotateKey", NewGen(c.maxGen))

\* ---- GetCurrentKey
\* mutant: the read stamps the row it returns (a "last used" write)
GetCurrentKey_touch(c) ==
    LET key == FindLatestActiveByTenantID(store, c.tenant) IN
    /\ c.op = "GetCurrentKey" /\ c.pc = "start"
    /\ \/ /\ calls' = Replace(c, Return(c, Wrapf("finding current key", DBError), Nil))
          /\ UNCHANGED <<store, clock>>
       \/ /\ key = Nil
          /\ calls' = Replace(c, Return(c, ErrKeyNotFound, Nil))
          /\ UNCHANGED <<store, clock>>
       \/ /\ key # Nil
          /\ \E d \in DecryptKey(c, key) : calls' = Replace(c, d)
          /\ store' = UpdateStatus(store, key.id, key.status, clock + 1)
          /\ clock' = clock + 1
    /\ UNCHANGED <<started, generated>>

GetCurrentKey(c) ==
    LET key == FindLatestActiveByTenantID(store, c.tenant) IN
    /\ c.op = "GetCurrentKey" /\ c.pc = "start"
    /\ \/ calls' = Replace(c, Return(c, Wrapf("finding current key", DBError), Nil))
       \/ /\ key = Nil
          /\ calls' = Replace(c, Return(c, ErrKeyNotFound, Nil))
       \/ /\ key # Nil
          /\ \E d \in DecryptKey(c, key) : calls' = Replace(c, d)
    /\ UNCHANGED <<store, clock, started, generated>>

\* ---- GetKeyByGeneration
\* mutant: the status of the row is not looked at
GetKeyByGeneration_noStatusCheck(c) ==
    LET key == FindByTenantIDAndGeneration(store, c.tenant, c.generation) IN
    /\ c.op = "GetKeyByGeneration" /\ c.pc = "start"
    /\ \/ calls' = Replace(c, Return(c, Wrapf("finding key", DBError), Nil))
       \/ /\ key = Nil
          /\ calls' = Replace(c, Return(c, ErrKeyNotFound, Nil))
       \/ /\ key # Nil
          /\ \E d \in DecryptKey(c, key) : calls' = Replace(c, d)
    /\ UNCHANGED <<store, clock, started, generated>>

GetKeyByGeneration(c) ==
    LET key == FindByTenantIDAndGeneration(store, c.tenant, c.generation) IN
    /\ c.op = "GetKeyByGeneration" /\ c.pc = "start"
    /\ \/ calls' = Replace(c, Return(c, Wrapf("finding key", DBError), Nil))
       \/ /\ key = Nil
          /\ calls' = Replace(c, Return(c, ErrKeyNotFound, Nil))
       \/ /\ key # Nil /\ key.status = KeyStatusDisabled
          /\ calls' = Replace(c, Return(c, ErrKeyDisabled, Nil))
       \/ /\ key # Nil /\ key.status # KeyStatusDisabled
          /\ \E d \in DecryptKey(c, key) : calls' = Replace(c, d)
    /\ UNCHANGED <<store, clock, started, generated>>

\* ---- ListKeys
ListKeys(c) ==
    LET keys == FindAllByTenantID(store, c.tenant) IN
    /\ c.op = "ListKeys" /\ c.pc = "start"
    /\ \E dbErr \in BOOLEAN :
         calls' = Replace(c,
            IF dbErr THEN Return(c, Wrapf("finding keys", DBError), Nil)
            ELSE Return(c, NoErr,
                        [keys |-> [i \in 1..Len(keys) |-> KeyMetadata(keys[i])]]))
    /\ UNCHANGED <<store, clock, started, generated>>

\* ---- DisableKey
\* mutant: disabling a disabled record is accepted (idempotent disable)
DisableKeyFind_idempotent(c) ==
    LET key == FindByTenantIDAndGeneration(store, c.tenant, c.generation) IN
    /\ c.op = "DisableKey" /\ c.pc = "start"
    /\ \E dbErr \in BOOLEAN :
         calls' = Replace(c,
            IF dbErr THEN Return(c, Wrapf("finding key", DBError), Nil)
            ELSE IF key = Nil THEN Return(c, ErrKeyNotFound, Nil)
            ELSE [c EXCEPT !.key = key, !.pc = "update"])
    /\ UNCHANGED <<store, clock, started, generated>>

DisableKeyFind(c) ==
    LET key == FindByTenantIDAndGeneration(store, c.tenant, c.generation) IN
    /\ c.op = "DisableKey" /\ c.pc = "start"
    /\ \E dbErr \in BOOLEAN :
         calls' = Replace(c,
            IF dbErr THEN Return(c, Wrapf("finding key", DBError), Nil)
            ELSE IF key = Nil THEN Return(c, ErrKeyNotFound, Nil)
            ELSE IF key.status = KeyStatusDisabled
                 THEN Return(c, ErrKeyAlreadyDisabled, Nil)
            ELSE [c EXCEPT !.key = key, !.pc = "update"])
    /\ UNCHANGED <<store, clock, started, generated>>

DisableKeyUpdate(c) ==
    /\ c.op = "DisableKey" /\ c.pc = "update"
    /\ \E dbErr \in BOOLEAN :
         IF dbErr THEN
            /\ calls' = Replace(c, Return(c, Wrapf("updating status", DBError), Nil))
            /\ UNCHANGED <<store, clock, generated>>
         ELSE
            /\ store' = UpdateStatus(store, c.key.id, KeyStatusDisabled, clock + 1)
            /\ clock' = clock + 1
            /\ UNCHANGED generated
            /\ calls' = Replace(c, Return(c, NoErr, Nil))
    /\ UNCHANGED started

Next ==
    \/ \E op \in Ops, t \in Tenants, g \in Generations :
          Invoke(op, t, IF op \in {"DisableKey", "GetKeyByGeneration"} THEN g ELSE 0)
          /\ UNCHANGED <<migVars, cliVars>>
    \/ \E c \in InFlight : Respond(c) /\ UNCHANGED <<migVars, cliVars>>
    \/ \E c \in InFlight : CreateKeyExists(c) /\ UNCHANGED <<migVars, cliVars>>
    \/ \E c \in InFlight : CreateKeyInsert(c) /\ UNCHANGED <<migVars, cliVars>>
    \/ \E c \in InFlight : RotateKeyGetMax(c) /\ UNCHANGED <<migVars, cliVars>>
    \/ \E c \in InFlight : RotateKeyInsert(c) /\ UNCHANGED <<migVars, cliVars>>
    \/ \E c \in InFlight : GetCurrentKey(c) /\ UNCHANGED <<migVars, cliVars>>
    \/ \E c \in InFlight : GetKeyByGeneration(c) /\ UNCHANGED <<migVars, cliVars>>
    \/ \E c \in InFlight : ListKeys(c) /\ UNCHANGED <<migVars, cliVars>>
    \/ \E c \in InFlight : DisableKeyFind(c) /\ UNCHANGED <<migVars, cliVars>>
    \/ \E c \in InFlight : DisableKeyUpdate(c) /\ UNCHANGED <<migVars, cliVars>>

Spec == Init /\ [][Next]_vars

\* ------------------------------------------------- requests as they arrive
\* the same service behind the handlers' validation of the raw path
\* parameters
Repeat(ch, n) == [i \in 1..n |-> ch]

TenantInputs ==
    {<<>>, <<"t", "1">>, <<"A", "_", "b", "-", "9">>,
     <<"h", "a", "s", " ", "s", "p", "a", "c", "e", "!">>,
     Repeat("a", maxTenantIDLen), Repeat("a", maxTenantIDLen + 1)}

GenInputs ==
    {<<>>, <<"0">>, <<"1">>, <<"0", "2">>, <<"-", "1">>, <<"1", "x">>,
     Repeat("9", Len(MaxUint32Digits))}

\* mutant: the handler writes a FAILED audit event before it rejects
BadRequest_audited(op, tenantID, err, code) ==
    [IdleCall EXCEPT !.op = op, !.tenant = tenantID, !.pc = "done", !.err = err,
                     !.resp = [status |-> 400, code |-> code],
                     !.audit = HandlerAudit(op, tenantID, 0, err, Nil),
                     !.message = IF code = "INVALID_TENANT_ID"
                                 THEN "invalid tenant ID format"
                                 ELSE "invalid generation number"]

\* httputil.Error(w, 400, code, ...) and return, before the service is called
BadRequest(op, tenantID, err, code) ==
    [IdleCall EXCEPT !.op = op, !.tenant = tenantID, !.pc = "done", !.err = err,
                     !.resp = [status |-> 400, code |-> code],
                     !.message = IF code = "INVALID_TENANT_ID"
                                 THEN "invalid tenant ID format"
                                 ELSE "invalid generation number"]

\* a handler receives a request: it validates tenant_id, then (on the routes
\* that have one) generation, and only then calls the service
HandleRequest(op, tenantID, genStr) ==
    LET gen == validateGeneration(genStr) IN
    /\ started < MaxRequests
    /\ BagCardinality(calls) < NumSlots
    /\ started' = started + 1
    /\ calls' = calls (+) SetToBag({
          IF validateTenantID(tenantID) # NoErr
          THEN BadRequest(op, tenantID, ErrInvalidTenantID, "INVALID_TENANT_ID")
          ELSE IF op \in GenOps /\ gen.err # NoErr
          THEN BadRequest(op, tenantID, ErrInvalidGeneration, "INVALID_GENERATION")
          ELSE NewCall(op, tenantID, IF op \in GenOps THEN gen.gen ELSE 0)})
    /\ UNCHANGED <<store, clock, generated>>

HandlerNext ==
    \/ \E op \in Ops, tenantID \in TenantInputs, genStr \in GenInputs :
          HandleRequest(op, tenantID, IF op \in GenOps THEN genStr ELSE <<>>) /\ UNCHANGED <<migVars, cliVars>>
    \/ \E c \in InFlight : Respond(c) /\ UNCHANGED <<migVars, cliVars>>
    \/ \E c \in InFlight : CreateKeyExists(c) /\ UNCHANGED <<migVars, cliVars>>
    \/ \E c \in InFlight : CreateKeyInsert(c) /\ UNCHANGED <<migVars, cliVars>>
    \/ \E c \in InFlight : RotateKeyGetMax(c) /\ UNCHANGED <<migVars, cliVars>>
    \/ \E c \in InFlight : RotateKeyInsert(c) /\ UNCHANGED <<migVars, cliVars>>
    \/ \E c \in InFlight : GetCurrentKey(c) /\ UNCHANGED <<migVars, cliVars>>
    \/ \E c \in InFlight : GetKeyByGeneration(c) /\ UNCHANGED <<migVars, cliVars>>
    \/ \E c \in InFlight : ListKeys(c) /\ UNCHANGED <<migVars, cliVars>>
    \/ \E c \in InFlight : DisableKeyFind(c) /\ UNCHANGED <<migVars, cliVars>>
    \/ \E c \in InFlight : DisableKeyUpdate(c) /\ UNCHANGED <<migVars, cliVars>>

HandlerSpec == Init /\ [][HandlerNext]_vars

\* -------------------------------------------------------------- migrations
\* file names and versions are strings: sequences of one-character strings.
\* Go compares strings byte by byte: the characters used, in byte order
ByteOrder ==
    <<".", "0", "1", "2", "3", "4", "5", "6", "7", "8", "9", "_",
      "a", "b", "c", "d", "e", "f", "g", "h", "i", "j", "k", "l", "m",
      "n", "o", "p", "q", "r", "s", "t", "u", "v", "w", "x", "y", "z">>
ByteOf(ch) == CHOOSE i \in 1..Len(ByteOrder) : ByteOrder[i] = ch

\* mutant: versions compared as numbers of the same width (shorter is less)
RECURSIVE StringLess_byLength(_, _)
StringLess_byLength(a, b) ==
    IF Len(a) # Len(b) THEN Len(a) < Len(b)
    ELSE IF a = <<>> THEN FALSE
    ELSE IF Head(a) # Head(b) THEN ByteOf(Head(a)) < ByteOf(Head(b))
    ELSE StringLess_byLength(Tail(a), Tail(b))

\* a < b on Go strings
RECURSIVE StringLess(_, _)
StringLess(a, b) ==
    IF b = <<>> THEN FALSE
    ELSE IF a = <<>> THEN TRUE
    ELSE IF Head(a) # Head(b) THEN ByteOf(Head(a)) < ByteOf(Head(b))
    ELSE StringLess(Tail(a), Tail(b))

SqlSuffix == <<".", "s", "q", "l">>
\* strings.HasSuffix / strings.TrimSuffix
HasSuffix(str, suffix) ==
    /\ Len(str) >= Len(suffix)
    /\ SubSeq(str, Len(str) - Len(suffix) + 1, Len(str)) = suffix
TrimSuffix(str, suffix) ==
    IF HasSuffix(str, suffix) THEN SubSeq(str, 1, Len(str) - Len(suffix)) ELSE str
\* strings.SplitN(str, "_", 2): one part without an underscore, else the
\* parts before and after the first one
SplitN2(str) ==
    LET at == {i \in 1..Len(str) : str[i] = "_"}
    IN  IF at = {} THEN <<str>>
        ELSE LET i == CHOOSE k \in at : \A j \in at : k <= j
             IN  <<SubSeq(str, 1, i - 1), SubSeq(str, i + 1, Len(str))>>

ErrMigrationFailed == [ctx |-> "", cause |-> "ErrMigrationFailed"]
ErrInvalidMigrationFile == [ctx |-> "", cause |-> "ErrInvalidMigrationFile"]
FSError == "fs error"                      \* os.ReadDir / os.ReadFile failure

parseMigrationFileName(filename) ==
    LET parts == SplitN2(TrimSuffix(filename, SqlSuffix))
    IN  IF Len(parts) < 2
        THEN [version |-> <<>>, name |-> <<>>, err |-> ErrInvalidMigrationFile]
        ELSE [version |-> parts[1], name |-> parts[2], err |-> NoErr]

\* directory entries: three migration files (versions 001 < 10 < 9 as
\* strings), a .sql file without an underscore, a .sql file with nothing
\* before its underscore, a file that is not .sql and a subdirectory whose
\* name ends in .sql
File001 == [name |-> <<"0", "0", "1", "_", "i", "n", "i", "t", ".", "s", "q", "l">>, isDir |-> FALSE]
File10 == [name |-> <<"1", "0", "_", "k", "e", "y", "s", ".", "s", "q", "l">>, isDir |-> FALSE]
File9 == [name |-> <<"9", "_", "i", "n", "d", "e", "x", ".", "s", "q", "l">>, isDir |-> FALSE]
FileAbc == [name |-> <<"a", "b", "c", ".", "s", "q", "l">>, isDir |-> FALSE]
FileX == [name |-> <<"_", "x", ".", "s", "q", "l">>, isDir |-> FALSE]
FileNotes == [name |-> <<"n", "o", "t", "e", "s", ".", "t", "x", "t">>, isDir |-> FALSE]
SubDir == [name |-> <<"0", "_", "o", "l", "d", ".", "s", "q", "l">>, isDir |-> TRUE]
Entries == {File001, File10, File9, FileAbc, FileX, FileNotes, SubDir}
InitialDirs == {{}, {File9, FileNotes}, {File001, File10, File9, SubDir}}

\* the entries scanMigrationFiles looks at
SqlFiles(entries) == {e \in entries : ~e.isDir /\ HasSuffix(e.name, SqlSuffix)}
Migration(e) ==
    LET parsed == parseMigrationFileName(e.name)
    IN  [version |-> parsed.version, name |-> parsed.name, file |-> e.name]

\* mutant: the files are left in the order of their names' lengths
RECURSIVE SortByVersion_unsorted(_)
SortByVersion_unsorted(ms) ==
    IF ms = {} THEN <<>>
    ELSE LET m == CHOOSE x \in ms : \A y \in ms : Len(x.file) >= Len(y.file)
         IN  <<m>> \o SortByVersion_unsorted(ms \ {m})

\* sort.Slice(migrations, Version < Version)
RECURSIVE SortByVersion(_)
SortByVersion(ms) ==
    IF ms = {} THEN <<>>
    ELSE LET m == CHOOSE x \in ms : \A y \in ms : ~StringLess(y.version, x.version)
         IN  <<m>> \o SortByVersion(ms \ {m})

\* scanMigrationFiles on a directory that could be read
scanMigrationFiles(entries) ==
    IF \E e \in SqlFiles(entries) : parseMigrationFileName(e.name).err # NoErr
    THEN [migrations |-> <<>>, err |-> ErrInvalidMigrationFile]
    ELSE [migrations |-> SortByVersion({Migration(e) : e \in SqlFiles(entries)}),
          err |-> NoErr]

\* mutant: no version is ever found in schema_migrations
IsMigrationApplied_never(rows, version) == FALSE

\* IsMigrationApplied: SELECT count(*) FROM schema_migrations WHERE version = ?
IsMigrationApplied(rows, version) == \E r \in rows : r.version = version

\* mutant: the applied timestamp is not copied
AppliedAt_zero(rows, version) == 0

\* FindAllApplied as the map GetMigrationStatus builds from it
AppliedAt(rows, version) == (CHOOSE r \in rows : r.version = version).applied_at

MigrationOps == {"ApplyMigrations", "GetMigrationStatus"}
\* the shells from which keyctl migrate is run: that many runs can overlap
Shells == {"deploy", "operator"}

\* one keyctl migrate process: the locals of the service method
\* (allMigrations, pendingMigrations, the loop index, appliedCount, the
\* migration of the open transaction), what it returned, and observations
\* kept for the properties: the entries it read, the version it failed on,
\* the Exec calls and commits it made, the versions it committed in order,
\* and how the last ApplyMigrations before it had ended
IdleRun ==
    [op |-> "none", pc |-> "idle", allMigrations |-> <<>>,
     pendingMigrations |-> <<>>, i |-> 0, appliedCount |-> 0, tx |-> <<>>,
     err |-> NoErr, ret |-> <<>>, failedVersion |-> <<>>,
     scanned |-> {}, execs |-> 0, commits |-> 0, committed |-> <<>>,
     prev |-> NoRun]

Running == BagToSet(runs)
\* the step of run r to d; an ApplyMigrations that returns is remembered
RunStep(r, d) ==
    /\ runs' = (runs (-) SetToBag({r})) (+) SetToBag({d})
    /\ lastRun' = IF d.pc = "done" /\ d.op = "ApplyMigrations"
                  THEN [ok |-> d.err = NoErr, scanned |-> d.scanned]
                  ELSE lastRun
RunReturn(r, err) == [r EXCEPT !.pc = "done", !.err = err, !.tx = <<>>]
\* mutant: the loop goes on to the next pending migration after a failure
RunFailed_keepGoing(r, version) ==
    IF r.i < Len(r.pendingMigrations)
    THEN [r EXCEPT !.pc = "apply", !.i = @ + 1, !.err = ErrMigrationFailed,
                   !.tx = <<>>, !.failedVersion = version]
    ELSE [r EXCEPT !.pc = "done", !.err = ErrMigrationFailed, !.tx = <<>>,
                   !.failedVersion = version]

\* fmt.Errorf("%w: version %s: %v", ErrMigrationFailed, version, err)
RunFailed(r, version) ==
    [r EXCEPT !.pc = "done", !.err = ErrMigrationFailed, !.tx = <<>>,
              !.failedVersion = version]

\* keyctl migrate up / status is started
StartRun(op) ==
    /\ started < MaxRuns
    /\ BagCardinality(runs) < Cardinality(Shells)
    /\ started' = started + 1
    /\ runs' = runs (+) SetToBag({[IdleRun EXCEPT !.op = op, !.pc = "scan",
                                                   !.prev = lastRun]})
    /\ UNCHANGED <<keyVars, cliVars, clock, dir, recorded, effects, added, lastRun, inOrder>>

\* the process exits
FinishRun(r) ==
    /\ r.pc = "done"
    /\ runs' = runs (-) SetToBag({r})
    /\ UNCHANGED <<keyVars, cliVars, clock, started, dir, recorded, effects, added, lastRun, inOrder>>

\* someone puts an entry into the migrations directory
AddFile(e) ==
    /\ added < MaxAdds
    /\ e \notin dir
    /\ dir' = dir \cup {e}
    /\ added' = added + 1
    /\ inOrder' = (inOrder /\ (e \in SqlFiles({e})
                                /\ parseMigrationFileName(e.name).err = NoErr =>
                      \A f \in SqlFiles(dir) :
                         StringLess(parseMigrationFileName(f.name).version,
                                    parseMigrationFileName(e.name).version)))
    /\ UNCHANGED <<keyVars, cliVars, clock, started, recorded, effects, runs, lastRun>>

\* scanMigrationFiles, first statement of both service methods
Scan(r) ==
    LET scan == scanMigrationFiles(dir)
        read == [r EXCEPT !.scanned = dir]
    IN
    /\ r.pc = "scan"
    /\ \E fsErr \in BOOLEAN :
         RunStep(r,
            IF fsErr
            THEN RunReturn(r, Wrapf("failed to read migrations directory", FSError))
            ELSE IF scan.err # NoErr THEN RunReturn(read, scan.err)
            ELSE IF r.op = "GetMigrationStatus"
            THEN [read EXCEPT !.allMigrations = scan.migrations, !.pc = "find"]
            ELSE IF scan.migrations = <<>> THEN RunReturn(read, NoErr)
            ELSE [read EXCEPT !.allMigrations = scan.migrations, !.pc = "filter",
                              !.i = 1])
    /\ UNCHANGED <<keyVars, cliVars, clock, started, dir, recorded, effects, added, inOrder>>

\* ApplyMigrations: one IsMigrationApplied query of the filtering loop, and
\* after the last one the return of 0 when nothing is pending
Filter(r) ==
    LET m == r.allMigrations[r.i]
        pending == IF IsMigrationApplied(recorded, m.version)
                   THEN r.pendingMigrations
                   ELSE Append(r.pendingMigrations, m)
    IN
    /\ r.pc = "filter"
    /\ \E dbErr \in BOOLEAN :
         RunStep(r,
            IF dbErr
            THEN RunReturn(r, Wrapf("failed to check migration status", DBError))
            ELSE IF r.i < Len(r.allMigrations)
            THEN [r EXCEPT !.pendingMigrations = pending, !.i = @ + 1]
            ELSE IF pending = <<>>
            THEN RunReturn([r EXCEPT !.pendingMigrations = pending], NoErr)
            ELSE [r EXCEPT !.pendingMigrations = pending, !.i = 1, !.pc = "apply"])
    /\ UNCHANGED <<keyVars, cliVars, clock, started, dir, recorded, effects, added, inOrder>>

\* applyMigration: os.ReadFile, then inside the transaction tx.Exec of the
\* file's statements
ExecSQL(r) ==
    LET m == r.pendingMigrations[r.i] IN
    /\ r.pc = "apply"
    /\ \/ RunStep(r, RunFailed(r, m.version))                 \* ReadFile fails
       \/ RunStep(r, RunFailed([r EXCEPT !.execs = @ + 1], m.version))
       \/ RunStep(r, [r EXCEPT !.execs = @ + 1, !.tx = <<m>>, !.pc = "record"])
    /\ UNCHANGED <<keyVars, cliVars, clock, started, dir, recorded, effects, added, inOrder>>

\* mutant: the version is recorded although the transaction is rolled back
CommitRecord_onFailure(rows, version, now, ok) ==
    rows \cup {[version |-> version, applied_at |-> now]}

\* the rows of schema_migrations after the transaction ended
CommitRecord(rows, version, now, ok) ==
    IF ok THEN rows \cup {[version |-> version, applied_at |-> now]} ELSE rows

\* mutant: schema_migrations has no primary key on version, so the insert
\* of a version that is already recorded succeeds and the transaction commits
RecordAndCommit_noPrimaryKey(r) ==
    LET m == r.tx[1]
        last == r.i = Len(r.pendingMigrations)
        done == [r EXCEPT !.appliedCount = @ + 1, !.commits = @ + 1,
                          !.committed = Append(@, m.version), !.tx = <<>>]
    IN
    /\ r.pc = "record"
    /\ \E dbErr \in BOOLEAN :
         LET ok == ~dbErr IN
         /\ recorded' = CommitRecord(recorded, m.version, clock + 1, ok)
         /\ effects' = IF ok THEN effects \cup {[file |-> m.file, at |-> clock + 1]}
                       ELSE effects
         /\ clock' = IF ok THEN clock + 1 ELSE clock
         /\ RunStep(r, IF ~ok THEN RunFailed(r, m.version)
                       ELSE IF last THEN RunReturn(done, NoErr)
                       ELSE [done EXCEPT !.i = @ + 1, !.pc = "apply"])
    /\ UNCHANGED <<keyVars, cliVars, started, dir, added, inOrder>>

\* applyMigration: the insert into schema_migrations inside the transaction
\* and the commit; a version already recorded violates the primary key, and
\* any error rolls the transaction back
RecordAndCommit(r) ==
    LET m == r.tx[1]
        last == r.i = Len(r.pendingMigrations)
        done == [r EXCEPT !.appliedCount = @ + 1, !.commits = @ + 1,
                          !.committed = Append(@, m.version), !.tx = <<>>]
    IN
    /\ r.pc = "record"
    /\ \E dbErr \in BOOLEAN :
         LET ok == ~dbErr /\ ~IsMigrationApplied(recorded, m.version) IN
         /\ recorded' = CommitRecord(recorded, m.version, clock + 1, ok)
         /\ effects' = IF ok THEN effects \cup {[file |-> m.file, at |-> clock + 1]}
                       ELSE effects
         /\ clock' = IF ok THEN clock + 1 ELSE clock
         /\ RunStep(r, IF ~ok THEN RunFailed(r, m.version)
                       ELSE IF last THEN RunReturn(done, NoErr)
                       ELSE [done EXCEPT !.i = @ + 1, !.pc = "apply"])
    /\ UNCHANGED <<keyVars, cliVars, started, dir, added, inOrder>>

\* GetMigrationStatus: FindAllApplied and the status of each file
FindApplied(r) ==
    /\ r.pc = "find"
    /\ \E dbErr \in BOOLEAN :
         RunStep(r,
            IF dbErr
            THEN RunReturn(r, Wrapf("failed to fetch applied migrations", DBError))
            ELSE RunReturn(
                   [r EXCEPT !.ret =
                      [k \in 1..Len(r.allMigrations) |->
                         LET m == r.allMigrations[k] IN
                         IF IsMigrationApplied(recorded, m.version)
                         THEN [version |-> m.version, name |-> m.name,
                               status |-> "applied",
                               applied_at |-> AppliedAt(recorded, m.version)]
                         ELSE [version |-> m.version, name |-> m.name,
                               status |-> "pending", applied_at |-> 0]]],
                   NoErr))
    /\ UNCHANGED <<keyVars, cliVars, clock, started, dir, recorded, effects, added, inOrder>>

MigrationNext ==
    \/ \E op \in MigrationOps : StartRun(op)
    \/ \E r \in Running : FinishRun(r)
    \/ \E e \in Entries : AddFile(e)
    \/ \E r \in Running : Scan(r)
    \/ \E r \in Running : Filter(r)
    \/ \E r \in Running : ExecSQL(r)
    \/ \E r \in Running : RecordAndCommit(r)
    \/ \E r \in Running : FindApplied(r)

MigrationInit == \E d \in InitialDirs : InitWith(d)

MigrationSpec == MigrationInit /\ [][MigrationNext]_vars

\* ------------------------------------------------------------------ keyctl
KeyCmds == {"create", "get", "rotate", "list", "disable"}
Cmds == KeyCmds \cup {"version"}
GenCmds == {"get", "disable"}
\* MarkFlagRequired
RequiredFlags(cmd) ==
    IF cmd = "disable" THEN {"tenant", "generation"}
    ELSE IF cmd \in KeyCmds THEN {"tenant"} ELSE {}
ApiURLs == {"", "http://kms"}
CliTenants == {"", "t1"}
Outputs == {"text", "json"}
Statuses == {200, 201, 202, 400, 401, 403, 404, 409, 410, 500}
\* the status each command takes as success
SuccessStatus(cmd) ==
    CASE cmd \in {"create", "rotate"} -> 201
      [] cmd \in {"get", "list"} -> 200
      [] cmd = "disable" -> 202

\* the shell starts keyctl with a command and flags
Execute(cmd, badFlag, tenantSet, tenantID, genSet, generation, apiURLFlag, env, output) ==
    /\ cli.pc \in {"idle", "exited"}
    /\ tenantSet \/ tenantID = ""
    /\ genSet \/ generation = 0
    /\ cmd \in KeyCmds \/ ~tenantSet
    /\ cmd \in GenCmds \/ ~genSet
    /\ cli' = [IdleCli EXCEPT !.pc = "parse", !.cmd = cmd, !.badFlag = badFlag,
                               !.tenantSet = tenantSet, !.tenantID = tenantID,
                               !.genSet = genSet, !.generation = generation,
                               !.apiURLFlag = apiURLFlag, !.env = env,
                               !.apiURL = apiURLFlag, !.output = output]
    /\ UNCHANGED <<keyVars, migVars, clock, started>>

\* rootCmd.Execute: the flags are parsed; an unknown flag or a value that
\* does not parse is an error of Execute
ParseFlags ==
    /\ cli.pc = "parse"
    /\ cli' = IF cli.badFlag
               THEN [cli EXCEPT !.pc = "exit", !.err = "invalid argument"]
               ELSE [cli EXCEPT !.pc = "prerun"]
    /\ UNCHANGED <<keyVars, migVars, clock, started>>

\* PersistentPreRun: KEYCTL_API_URL when --api-url is empty
PersistentPreRun ==
    /\ cli.pc = "prerun"
    /\ cli' = [cli EXCEPT !.pc = "required",
                          !.apiURL = IF cli.apiURL = "" THEN cli.env ELSE @]
    /\ UNCHANGED <<keyVars, migVars, clock, started>>

\* the flags marked with MarkFlagRequired must have been given
ValidateRequiredFlags ==
    LET given == (IF cli.tenantSet THEN {"tenant"} ELSE {})
                 \cup (IF cli.genSet THEN {"generation"} ELSE {})
    IN
    /\ cli.pc = "required"
    /\ cli' = IF RequiredFlags(cli.cmd) \subseteq given
               THEN [cli EXCEPT !.pc = "run"]
               ELSE [cli EXCEPT !.pc = "exit", !.err = "required flag(s) not set"]
    /\ UNCHANGED <<keyVars, migVars, clock, started>>

\* RunE of the command up to the HTTP request (Run of version)
RunE ==
    /\ cli.pc = "run"
    /\ cli' =
         IF cli.cmd = "version" THEN [cli EXCEPT !.pc = "exit"]
         ELSE IF cli.tenantID = ""
         THEN [cli EXCEPT !.pc = "exit", !.err = "--tenant is required"]
         ELSE IF cli.cmd = "disable" /\ cli.generation = 0
         THEN [cli EXCEPT !.pc = "exit", !.err = "--generation is required"]
         ELSE IF cli.apiURL = ""
         THEN [cli EXCEPT !.pc = "exit", !.err = "--api-url is required"]
         ELSE [cli EXCEPT !.pc = "request", !.route =
                 CASE cli.cmd = "create" -> "POST /keys"
                   [] cli.cmd = "rotate" -> "POST /keys/rotate"
                   [] cli.cmd = "list" -> "GET /keys"
                   [] cli.cmd = "disable" -> "DELETE /keys/{generation}"
                   [] cli.cmd = "get" -> IF cli.generation > 0
                                         THEN "GET /keys/{generation}"
                                         ELSE "GET /keys/current"]
    /\ UNCHANGED <<keyVars, migVars, clock, started>>

\* httpClient.Post / Get / Do and io.ReadAll
DoRequest ==
    /\ cli.pc = "request"
    /\ \/ cli' = [cli EXCEPT !.pc = "exit", !.transportErr = TRUE,
                              !.err = "API request failed"]
       \/ \E status \in Statuses, readErr, hasMessage, parses \in BOOLEAN :
            /\ hasMessage => parses
            /\ cli' = [cli EXCEPT !.pc = "response", !.status = status,
                                  !.readErr = readErr, !.hasMessage = hasMessage,
                                  !.parses = parses]
    /\ UNCHANGED <<keyVars, migVars, clock, started>>

\* fmt.Errorf("Error: %s", message) or "Error: server returned status %d"
handleErrorResponse(hasMessage) ==
    IF hasMessage THEN "Error: message" ELSE "Error: server returned status"

\* RunE of the command after the response has arrived
HandleResponse ==
    /\ cli.pc = "response"
    /\ cli' = [cli EXCEPT !.pc = "exit", !.err =
                 IF cli.readErr THEN "reading response"
                 ELSE IF cli.status # SuccessStatus(cli.cmd)
                 THEN handleErrorResponse(cli.hasMessage)
                 ELSE IF cli.output = "json" \/ cli.cmd = "disable" THEN "nil"
                 ELSE IF ~cli.parses THEN "parsing response"
                 ELSE "nil"]
    /\ UNCHANGED <<keyVars, migVars, clock, started>>

\* main: os.Exit(1) when Execute returned an error, else the return from main
Exit ==
    /\ cli.pc = "exit"
    /\ cli' = [cli EXCEPT !.pc = "exited", !.exit = IF cli.err # "nil" THEN 1 ELSE 0]
    /\ UNCHANGED <<keyVars, migVars, clock, started>>

KeyctlNext ==
    \/ \E cmd \in Cmds, badFlag, tenantSet, genSet \in BOOLEAN,
          tenantID \in CliTenants, generation \in 0..1,
          apiURLFlag, env \in ApiURLs, output \in Outputs :
          Execute(cmd, badFlag, tenantSet, tenantID, genSet, generation,
                  apiURLFlag, env, output)
    \/ ParseFlags
    \/ PersistentPreRun
    \/ ValidateRequiredFlags
    \/ RunE
    \/ DoRequest
    \/ HandleResponse
    \/ Exit

KeyctlSpec == Init /\ [][KeyctlNext]_vars

\* ------------------------------------------------------------ properties
Done(c) == c.pc = "done"
Succeeded(c) == Done(c) /\ c.err = NoErr
InfraCauses == {DBError, KMSError, RandError}
After == BagToSet(calls')
\* two distinct requests in flight (possibly in the same state)
TwoCalls(a, b) == a \in InFlight /\ b \in InFlight
                  /\ (a # b \/ CopiesIn(a, calls) >= 2)

\* the step that takes request c to d
CallStep(c, d) == c # d /\ calls' = Replace(c, d)
\* the step in which a request executes repo.Create
InsertStep(c, d) == c.pc = "insert" /\ d.pc = "done" /\ CallStep(c, d)
InsertOK(c, d) == InsertStep(c, d) /\ d.err = NoErr
\* the step in which a request executes repo.UpdateStatus
UpdateStep(c, d) == c.pc = "update" /\ d.pc = "done" /\ CallStep(c, d)

\* C1: in every reachable state, for every tenant the generations of its
\* stored records are exactly 1..N for some N >= 0 (no gap, none below 1).
C1_ContiguousGenerations ==
    \A t \in Tenants :
        \E N \in 0..Cardinality(store) : GenerationsOf(store, t) = 1..N

\* a tenant with generations 1..3 while a failed lifecycle call is pending
C1_Witness ==
    \E t \in Tenants, c \in InFlight :
        /\ GenerationsOf(store, t) = 1..3
        /\ Done(c) /\ c.tenant = t /\ c.err # NoErr
        /\ c.op \in {"CreateKey", "RotateKey", "DisableKey"}

\* C2: no step leaves two records with the same (tenant_id, generation);
\* an insert of a pair that is already stored fails and stores nothing,
\* also when two inserts of the same pair race.
C2_UniqueTenantGeneration ==
    [][ /\ \A r1, r2 \in store' :
              (r1.tenant_id = r2.tenant_id /\ r1.generation = r2.generation) => r1 = r2
        /\ \A c \in InFlight, d \in After :
              (/\ InsertStep(c, d)
               /\ \E r \in store :
                     /\ r.tenant_id = c.tenant
                     /\ r.generation = (IF c.op = "CreateKey" THEN 1 ELSE c.maxGen + 1))
              => (store' = store /\ d.err # NoErr) ]_vars

\* the loser of a race of two CreateKey inserts: refused, the pair stored once
C2_Witness ==
    \E c \in InFlight :
        /\ Done(c) /\ c.op = "CreateKey" /\ c.exists = FALSE
        /\ c.err.cause = DuplicateEntry
        /\ Cardinality({r \in store : r.tenant_id = c.tenant /\ r.generation = 1}) = 1

\* C3: every record is inserted active, no step removes a record or changes
\* its identity, and its status changes only from active to disabled, in the
\* UpdateStatus step of a DisableKey call; a disabled record stays disabled,
\* so no read after one that saw disabled can see active.
C3_StatusStateMachine ==
    [][ /\ \A r \in store :
              \E q \in store' :
                 /\ q.id = r.id /\ q.tenant_id = r.tenant_id
                 /\ q.generation = r.generation
                 /\ \/ q.status = r.status
                    \/ /\ r.status = KeyStatusActive /\ q.status = KeyStatusDisabled
                       /\ \E c \in InFlight, d \in After :
                             c.op = "DisableKey" /\ UpdateStep(c, d)
        /\ \A q \in store' :
              (\A r \in store : r.id # q.id) => q.status = KeyStatusActive
        /\ Cardinality(store') >= Cardinality(store) ]_vars

\* a disabled record that a later GetKeyByGeneration has read as disabled
C3_Witness ==
    \E c \in InFlight, r \in store :
        /\ r.status = KeyStatusDisabled
        /\ Done(c) /\ c.op = "GetKeyByGeneration"
        /\ c.tenant = r.tenant_id /\ c.generation = r.generation
        /\ c.err = ErrKeyDisabled

\* C4: MaxGeneration(T) changes only in the insert step of a successful
\* CreateKey(T) or RotateKey(T), and then by exactly +1: CreateKey from 0 to
\* 1, RotateKey from the M it read to M+1, which is the generation returned.
C4_MaxGenerationStep ==
    [][ /\ \A t \in Tenants :
              (store' # store
               /\ GetMaxGeneration(store', t) # GetMaxGeneration(store, t)) =>
                 \E c \in InFlight, d \in After :
                     /\ InsertOK(c, d) /\ c.tenant = t
                     /\ c.op \in {"CreateKey", "RotateKey"}
        /\ \A c \in InFlight, d \in After :
              LET m  == GetMaxGeneration(store, c.tenant)
                  m2 == GetMaxGeneration(store', c.tenant)
              IN  /\ InsertOK(c, d) =>
                      /\ m2 = m + 1
                      /\ d.ret.generation = m2
                      /\ c.op = "CreateKey" => m = 0
                      /\ c.op = "RotateKey" => (m >= 1 /\ m = c.maxGen)
                  /\ (~Done(c) /\ Done(d) /\ d.err # NoErr /\ CallStep(c, d))
                     => m2 = m ]_vars

\* CreateKey and three rotations: the last rotation returned generation 4
C4_Witness ==
    \E c \in InFlight :
        /\ Succeeded(c) /\ c.op = "RotateKey"
        /\ c.ret.generation = 4
        /\ GetMaxGeneration(store, c.tenant) = 4

\* C5 as stated: of two finished RotateKey(T) calls issued in a state with
\* MaxGeneration(T) = M >= 1 (neither hit by a KMS or store failure), exactly
\* one succeeded, with generation M+1, the other got the unique-constraint
\* conflict, and MaxGeneration(T) is M+1.
C5_Original ==
    \A a \in InFlight, b \in InFlight :
        (/\ TwoCalls(a, b) /\ Done(a) /\ Done(b)
         /\ a.op = "RotateKey" /\ b.op = "RotateKey"
         /\ a.tenant = b.tenant
         /\ a.startMax = b.startMax /\ a.startMax >= 1
         /\ a.err.cause \notin InfraCauses
         /\ b.err.cause \notin InfraCauses)
        => /\ (a.err = NoErr) # (b.err = NoErr)
           /\ a.err = NoErr =>
                 /\ a.ret.generation = a.startMax + 1
                 /\ b.err.cause = DuplicateEntry
           /\ GetMaxGeneration(store, a.tenant) = a.startMax + 1

\* C5 (amended): of two finished RotateKey(T) calls that both read the same
\* MaxGeneration(T) = M >= 1, at most one succeeded; the one that succeeded
\* returned generation M+1, and the other, unless a KMS or store failure
\* stopped it, failed with the store's unique-constraint error wrapped as
\* "creating key" (a 500 INTERNAL_ERROR response).
C5_SameObservedMax ==
    \A a \in InFlight, b \in InFlight :
        (/\ TwoCalls(a, b) /\ Done(a) /\ Done(b)
         /\ a.op = "RotateKey" /\ b.op = "RotateKey"
         /\ a.tenant = b.tenant
         /\ a.maxGen = b.maxGen /\ a.maxGen >= 1)
        => /\ ~(a.err = NoErr /\ b.err = NoErr)
           /\ a.err = NoErr =>
                 /\ a.ret.generation = a.maxGen + 1
                 /\ GetMaxGeneration(store, a.tenant) >= a.maxGen + 1
                 /\ b.err.cause \notin InfraCauses =>
                       /\ b.err = Wrapf("creating key", DuplicateEntry)
                       /\ b.resp = [status |-> 500, code |-> "INTERNAL_ERROR"]

\* two rotations that read the same M: one won with M+1, one lost the insert
C5_Witness ==
    \E a \in InFlight, b \in InFlight :
        /\ Done(a) /\ Done(b)
        /\ a.op = "RotateKey" /\ b.op = "RotateKey"
        /\ a.tenant = b.tenant
        /\ a.maxGen = b.maxGen /\ a.maxGen >= 1
        /\ a.err = NoErr /\ b.err.cause = DuplicateEntry

\* C6: a CreateKey call that passed the existence check and then lost the
\* insert of generation 1 to a concurrent CreateKey returns KeyAlreadyExists
\* and is answered 409 KEY_ALREADY_EXISTS.
C6_LoserGetsKeyAlreadyExists ==
    \A c \in InFlight :
        (/\ Done(c) /\ c.op = "CreateKey" /\ c.exists = FALSE
         /\ c.err.cause = DuplicateEntry)
        => /\ ErrorsIs(c.err, ErrKeyAlreadyExists)
           /\ c.resp = [status |-> 409, code |-> "KEY_ALREADY_EXISTS"]

\* C7: a CreateKey(T) call issued when T already has a record (whatever its
\* status) never reaches the KMS call or the insert, so it leaves the store
\* alone, and when its existence check is answered it returns
\* KeyAlreadyExists (409 KEY_ALREADY_EXISTS).
C7_CreateKeyAlreadyExists ==
    \A c \in InFlight :
        (c.op = "CreateKey" /\ c.startExists)
        => /\ c.pc \in {"start", "done"}
           /\ c.kmsCalls = 0
           /\ c.encryptedKey = Nil
           /\ Done(c) =>
                \/ /\ c.err = ErrKeyAlreadyExists
                   /\ c.resp = [status |-> 409, code |-> "KEY_ALREADY_EXISTS"]
                \/ c.err = Wrapf("checking existing key", DBError)

\* CreateKey refused for a tenant all of whose generations are disabled
C7_Witness ==
    \E c \in InFlight :
        /\ Done(c) /\ c.op = "CreateKey" /\ c.startExists
        /\ c.err = ErrKeyAlreadyExists
        /\ TenantRows(store, c.tenant) # {}
        /\ \A r \in TenantRows(store, c.tenant) : r.status = KeyStatusDisabled

\* C8: the insert step of a successful CreateKey(T) adds exactly one record,
\* with tenant_id T, generation 1, status active and wrapped_dek the KMS
\* encryption of the 32-byte key just generated, to a tenant that had none,
\* and returns exactly {tenant_id, generation, status, created_at}.
C8_CreateKeySuccess ==
    [][ \A c \in InFlight, d \in After :
          (InsertOK(c, d) /\ c.op = "CreateKey") =>
             /\ TenantRows(store, c.tenant) = {}
             /\ c.plainKey \in Plaintexts /\ c.plainKey.len = 32
             /\ \E r \in store' :
                   /\ r \notin store /\ store' = store \cup {r}
                   /\ r.tenant_id = c.tenant /\ r.generation = 1
                   /\ r.status = "active"
                   /\ r.encrypted_key = [wrapped |-> c.plainKey]
                   /\ d.ret = [tenant_id |-> c.tenant, generation |-> 1,
                               status |-> "active",
                               created_at |-> r.created_at] ]_vars

\* a CreateKey that has just returned the metadata of the generation 1 it stored
C8_Witness ==
    \E c \in InFlight, r \in store :
        /\ Succeeded(c) /\ c.op = "CreateKey" /\ c.kmsCalls = 1
        /\ r.tenant_id = c.tenant /\ r.generation = 1
        /\ r.encrypted_key \in {[wrapped |-> p] : p \in Plaintexts}
        /\ c.ret.generation = 1 /\ c.ret.created_at = r.created_at

\* C9: when RotateKey(T) reads MaxGeneration for a tenant without records
\* (and the read itself does not fail) it returns KeyNotFound at once, is
\* answered 404 KEY_NOT_FOUND, has made no KMS call and inserted nothing.
C9_RotateNeverBootstraps ==
    [][ \A c \in InFlight, d \in After :
          (/\ c.op = "RotateKey" /\ c.pc = "start"
           /\ TenantRows(store, c.tenant) = {}
           /\ d.err.cause # DBError
           /\ CallStep(c, d))
          => /\ d.pc = "done"
             /\ d.err = ErrKeyNotFound
             /\ d.resp = [status |-> 404, code |-> "KEY_NOT_FOUND"]
             /\ d.kmsCalls = 0
             /\ store' = store ]_vars

\* a RotateKey on a tenant that still has no record, answered KeyNotFound
C9_Witness ==
    \E c \in InFlight :
        /\ Done(c) /\ c.op = "RotateKey"
        /\ c.err = ErrKeyNotFound /\ c.kmsCalls = 0
        /\ TenantRows(store, c.tenant) = {}

\* C10: the insert step of a successful RotateKey(T) adds one record, at
\* generation M+1 with status active, and leaves every other record as it
\* was, so each older generation is found with the same status and
\* wrapped_dek as before.
C10_RotateKeepsOlderGenerations ==
    [][ \A c \in InFlight, d \in After :
          (InsertOK(c, d) /\ c.op = "RotateKey") =>
             LET t == c.tenant
                 M == GetMaxGeneration(store, t) IN
             /\ \E r \in store' :
                   /\ r \notin store /\ store' = store \cup {r}
                   /\ r.tenant_id = t /\ r.generation = M + 1
                   /\ r.status = "active"
             /\ \A g \in 1..M :
                   FindByTenantIDAndGeneration(store', t, g)
                      = FindByTenantIDAndGeneration(store, t, g) ]_vars

\* after a rotation to generation 2, generation 1 is still active and a
\* GetKeyByGeneration(T, 1) has returned its key
C10_Witness ==
    \E c \in InFlight, r1, r2 \in store :
        /\ r1.tenant_id = r2.tenant_id
        /\ r1.generation = 1 /\ r2.generation = 2
        /\ r1.status = KeyStatusActive /\ r2.status = KeyStatusActive
        /\ Succeeded(c) /\ c.op = "GetKeyByGeneration"
        /\ c.tenant = r1.tenant_id /\ c.generation = 1
        /\ c.startMax >= 2
        /\ c.ret.key = Decrypt(r1.encrypted_key)

\* C11: the step in which GetCurrentKey(T) reads the store returns (unless
\* the store or the KMS fails) the active record of T with the highest
\* generation, with the KMS decryption of its wrapped key, skipping higher
\* disabled generations; it returns KeyNotFound (404) exactly when T has no
\* active record; it writes nothing.
C11_GetCurrentKeyLatestActive ==
    [][ \A c \in InFlight, d \in After :
          (c.op = "GetCurrentKey" /\ c.pc = "start" /\ CallStep(c, d)) =>
             LET act == {r \in store : r.tenant_id = c.tenant /\ r.status = "active"} IN
             /\ Done(d) /\ store' = store
             /\ d.err.cause \notin {DBError, KMSError} =>
                  /\ (d.err = ErrKeyNotFound) <=> (act = {})
                  /\ (d.err = NoErr) <=> (act # {})
                  /\ act = {} => d.resp = [status |-> 404, code |-> "KEY_NOT_FOUND"]
                  /\ act # {} =>
                       \E r \in act :
                          /\ \A q \in act : q.generation <= r.generation
                          /\ d.kmsCalls = 1
                          /\ d.ret = [tenant_id |-> c.tenant,
                                      generation |-> r.generation,
                                      key |-> r.encrypted_key.wrapped] ]_vars

\* GetCurrentKey answered with generation 1 although generation 2 exists:
\* generation 2 is disabled and was skipped
C11_Witness ==
    \E c \in InFlight, r2 \in store :
        /\ Succeeded(c) /\ c.op = "GetCurrentKey"
        /\ c.startMax = 2 /\ c.ret.generation = 1
        /\ r2.tenant_id = c.tenant /\ r2.generation = 2
        /\ r2.status = KeyStatusDisabled

\* C12: the step in which GetKeyByGeneration(T, g) reads the store returns
\* (unless the store fails) KeyNotFound (404) when no record (T, g) exists,
\* KeyDisabled (410) without any KMS call when the record is disabled, and
\* otherwise calls the KMS once and returns the decrypted key with generation
\* g; a call issued when (T, g) was already disabled returns KeyDisabled.
C12_GetKeyByGeneration ==
    [][ \A c \in InFlight, d \in After :
          (c.op = "GetKeyByGeneration" /\ c.pc = "start" /\ CallStep(c, d)) =>
             LET rows == {r \in store : r.tenant_id = c.tenant
                                        /\ r.generation = c.generation} IN
             /\ Done(d) /\ store' = store
             /\ d.err.cause # DBError =>
                  /\ rows = {} =>
                        /\ d.err = ErrKeyNotFound /\ d.kmsCalls = 0
                        /\ d.resp = [status |-> 404, code |-> "KEY_NOT_FOUND"]
                  /\ \A r \in rows :
                        /\ r.status = "disabled" =>
                              /\ d.err = ErrKeyDisabled /\ d.kmsCalls = 0 /\ d.ret = Nil
                              /\ d.resp = [status |-> 410, code |-> "KEY_DISABLED"]
                        /\ r.status = "active" =>
                              /\ d.kmsCalls = 1
                              /\ \/ d.err = Wrapf("decrypting key", KMSError)
                                 \/ /\ d.err = NoErr
                                    /\ d.ret = [tenant_id |-> c.tenant,
                                                generation |-> c.generation,
                                                key |-> r.encrypted_key.wrapped]
                  /\ c.startStatus = "disabled" => d.err = ErrKeyDisabled ]_vars

\* a GetKeyByGeneration issued after the generation was disabled: refused
\* with KeyDisabled and no KMS call
C12_Witness ==
    \E c \in InFlight :
        /\ Done(c) /\ c.op = "GetKeyByGeneration" /\ c.startStatus = "disabled"
        /\ c.err = ErrKeyDisabled /\ c.kmsCalls = 0 /\ c.ret = Nil
        /\ c.resp = [status |-> 410, code |-> "KEY_DISABLED"]

\* C13: once a DisableKey(T, g) call has succeeded the record (T, g) is
\* disabled, and a DisableKey(T, g) call issued when (T, g) is disabled never
\* reaches the update and never succeeds: when its lookup is answered it
\* returns KeyAlreadyDisabled (409 KEY_ALREADY_DISABLED).
C13_DisableNotIdempotent ==
    \A c \in InFlight :
        c.op = "DisableKey" =>
           /\ Succeeded(c) =>
                 \E r \in store : /\ r.tenant_id = c.tenant
                                  /\ r.generation = c.generation
                                  /\ r.status = KeyStatusDisabled
           /\ c.startStatus = "disabled" =>
                 /\ c.pc \in {"start", "done"}
                 /\ Done(c) =>
                      /\ c.err # NoErr
                      /\ \/ /\ c.err = ErrKeyAlreadyDisabled
                            /\ c.resp = [status |-> 409, code |-> "KEY_ALREADY_DISABLED"]
                         \/ c.err = Wrapf("finding key", DBError)

\* a second DisableKey of a generation that an earlier call had disabled
C13_Witness ==
    \E c \in InFlight :
        /\ Done(c) /\ c.op = "DisableKey" /\ c.startStatus = "disabled"
        /\ c.err = ErrKeyAlreadyDisabled
        /\ c.resp = [status |-> 409, code |-> "KEY_ALREADY_DISABLED"]

\* C14: the update step of a successful DisableKey(T, g) disables the record
\* (T, g) and leaves every other record exactly as it was, so for every
\* other (tenant, generation) the lookup GetKeyByGeneration makes finds the
\* same record, with the same status and wrapped key, before and after.
C14_DisableLeavesOtherGenerations ==
    [][ \A c \in InFlight, d \in After :
          (c.op = "DisableKey" /\ UpdateStep(c, d) /\ d.err = NoErr) =>
             /\ \A r \in store :
                   IF r.tenant_id = c.tenant /\ r.generation = c.generation
                   THEN \E q \in store' : /\ q.id = r.id
                                          /\ q.status = KeyStatusDisabled
                                          /\ q.encrypted_key = r.encrypted_key
                   ELSE r \in store'
             /\ Cardinality(store') = Cardinality(store)
             /\ \A r \in store :
                   (r.tenant_id # c.tenant \/ r.generation # c.generation) =>
                      FindByTenantIDAndGeneration(store', r.tenant_id, r.generation)
                         = FindByTenantIDAndGeneration(store, r.tenant_id, r.generation)
        ]_vars

\* generation 2 disabled by a successful DisableKey while generation 1 of
\* the same tenant is still active and was never updated
C14_Witness ==
    \E c \in InFlight, r1, r2 \in store :
        /\ Succeeded(c) /\ c.op = "DisableKey" /\ c.generation = 2
        /\ r1.tenant_id = c.tenant /\ r2.tenant_id = c.tenant
        /\ r1.generation = 1 /\ r2.generation = 2
        /\ r2.status = KeyStatusDisabled
        /\ r1.status = KeyStatusActive /\ r1.updated_at = r1.created_at

\* C15: round trip. Every key returned by a successful GetKeyByGeneration
\* or GetCurrentKey is exactly the plaintext that the successful CreateKey
\* (generation 1) or RotateKey (later generations) of that tenant had
\* generated and wrapped for the generation returned, whatever rotations or
\* disables of other generations happened in between.
C15_RoundTrip ==
    /\ \A g1, g2 \in generated :
          (g1.tenant_id = g2.tenant_id /\ g1.generation = g2.generation) => g1 = g2
    /\ \A c \in InFlight :
          (Succeeded(c) /\ c.op \in {"GetKeyByGeneration", "GetCurrentKey"}) =>
             /\ c.op = "GetKeyByGeneration" => c.ret.generation = c.generation
             /\ c.ret.tenant_id = c.tenant
             /\ \E g \in generated :
                   /\ g.tenant_id = c.tenant
                   /\ g.generation = c.ret.generation
                   /\ g.plainKey = c.ret.key

\* GetKeyByGeneration(T, 1) returned what CreateKey(T) had generated, after
\* a rotation to generation 2 and with generation 2 disabled
C15_Witness ==
    \E c \in InFlight, g \in generated, r2 \in store :
        /\ Succeeded(c) /\ c.op = "GetKeyByGeneration" /\ c.generation = 1
        /\ g.tenant_id = c.tenant /\ g.generation = 1 /\ g.plainKey = c.ret.key
        /\ c.startMax = 2
        /\ r2.tenant_id = c.tenant /\ r2.generation = 2
        /\ r2.status = KeyStatusDisabled

\* C16: in every reachable state every stored record still has the
\* tenant_id, the generation and the non-empty wrapped key that were written
\* when it was inserted (generated keeps what each insert wrapped), one
\* record per insert: nothing, DisableKey / UpdateStatus in particular,
\* rewrites them.
C16_WrappedKeyImmutable ==
    /\ \A r1, r2 \in store : r1.id = r2.id => r1 = r2
    /\ {[tenant_id |-> r.tenant_id, generation |-> r.generation,
         encrypted_key |-> r.encrypted_key] : r \in store}
       = {[tenant_id |-> g.tenant_id, generation |-> g.generation,
           encrypted_key |-> Encrypt(g.plainKey)] : g \in generated}
    /\ Cardinality(store) = Cardinality(generated)
    /\ \A r \in store : r.encrypted_key # Nil /\ r.encrypted_key.wrapped.len > 0

\* a record that DisableKey has updated: disabled, updated after it was
\* created, and still holding the wrapped key of its insert
C16_Witness ==
    \E r \in store, g \in generated :
        /\ r.status = KeyStatusDisabled /\ r.updated_at > r.created_at
        /\ g.tenant_id = r.tenant_id /\ g.generation = r.generation
        /\ r.encrypted_key = Encrypt(g.plainKey)

\* C17: the step in which ListKeys(T) reads the store returns (unless the
\* store fails) a list with exactly one entry {tenant_id, generation,
\* status, created_at} per stored record of T, disabled ones included, in
\* strictly ascending generation order (the empty list when T has no
\* record); it makes no KMS call, returns no key material, writes nothing.
C17_ListKeys ==
    [][ \A c \in InFlight, d \in After :
          (c.op = "ListKeys" /\ c.pc = "start" /\ CallStep(c, d)) =>
             LET rows == {r \in store : r.tenant_id = c.tenant} IN
             /\ Done(d) /\ store' = store /\ d.kmsCalls = 0
             /\ d.err.cause # DBError =>
                  /\ d.err = NoErr
                  /\ d.resp = [status |-> 200, code |-> ""]
                  /\ Len(d.ret.keys) = Cardinality(rows)
                  /\ rows = {} => d.ret.keys = <<>>
                  /\ \A i, j \in 1..Len(d.ret.keys) :
                        i < j => d.ret.keys[i].generation < d.ret.keys[j].generation
                  /\ \A r \in rows : \E i \in 1..Len(d.ret.keys) :
                        d.ret.keys[i] = [tenant_id |-> r.tenant_id,
                                    generation |-> r.generation,
                                    status |-> r.status,
                                    created_at |-> r.created_at] ]_vars

\* a listing of two generations, the first of them disabled
C17_Witness ==
    \E c \in InFlight :
        /\ Succeeded(c) /\ c.op = "ListKeys" /\ c.kmsCalls = 0
        /\ Len(c.ret.keys) = 2
        /\ c.ret.keys[1].generation = 1 /\ c.ret.keys[1].status = "disabled"
        /\ c.ret.keys[2].generation = 2 /\ c.ret.keys[2].status = "active"

\* requests the handler turned away while validating the path parameters
ValidationErrs == {ErrInvalidTenantID, ErrInvalidGeneration}
AuditFields == {"operation", "tenant_id", "generation", "result"}
RouteOperation ==
    [CreateKey |-> "CREATE_KEY", RotateKey |-> "ROTATE_KEY",
     DisableKey |-> "DISABLE_KEY", GetCurrentKey |-> "GET_CURRENT_KEY",
     GetKeyByGeneration |-> "GET_KEY_BY_GENERATION", ListKeys |-> "LIST_KEYS"]

\* C18 as stated: every request that has completed, whatever its outcome, has
\* written exactly one audit event, whose result is SUCCESS exactly when the
\* operation succeeded and which, when FAILED, carries the error code of the
\* response.
C18_Original ==
    \A c \in BagToSet(calls) :
        Done(c) =>
            /\ Len(c.audit) = 1
            /\ (c.audit[1].result = "SUCCESS") <=> (c.err = NoErr)
            /\ c.err # NoErr =>
                  /\ c.audit[1].result = "FAILED"
                  /\ "code" \in DOMAIN c.audit[1]
                  /\ c.audit[1].code = c.resp.code

\* C18 amended: every request whose path parameters passed validation writes
\* exactly one audit event once the service has returned, whatever the
\* outcome; the event names the route's operation and the tenant, its result
\* is SUCCESS exactly when the operation succeeded and FAILED when it ended
\* in a domain or infrastructure error, and it has no error code; a request
\* rejected by path validation writes no audit event, and nothing is written
\* before the request completes.
C18_AuditAfterServiceCall ==
    \A c \in BagToSet(calls) :
        /\ ~Done(c) => c.audit = <<>>
        /\ Done(c) /\ c.err \in ValidationErrs => c.audit = <<>>
        /\ Done(c) /\ c.err \notin ValidationErrs =>
              /\ Len(c.audit) = 1
              /\ DOMAIN c.audit[1] = AuditFields
              /\ c.audit[1].operation = RouteOperation[c.op]
              /\ c.audit[1].tenant_id = c.tenant
              /\ c.audit[1].result \in {"SUCCESS", "FAILED"}
              /\ (c.audit[1].result = "SUCCESS") <=> (c.err = NoErr)

\* a rejected request without an event next to a failed operation with its
\* FAILED event
C18_Witness ==
    \E c, d \in BagToSet(calls) :
        /\ Done(c) /\ c.err \in ValidationErrs /\ c.audit = <<>>
        /\ Done(d) /\ d.err \notin ValidationErrs \cup {NoErr}
        /\ Len(d.audit) = 1 /\ d.audit[1].result = "FAILED"

\* the table as it looks with every wrapped key replaced by the wrapping of q
Rewrapped(st, q) == {[r EXCEPT !.encrypted_key = Encrypt(q)] : r \in st}
\* a row without its wrapped key
Unkeyed(r) == [tenant_id |-> r.tenant_id, generation |-> r.generation,
               status |-> r.status, created_at |-> r.created_at,
               updated_at |-> r.updated_at, id |-> r.id]

\* C19: the generated plaintext reaches only the KMS Encrypt call and the key
\* field of the GetCurrentKey / GetKeyByGeneration responses.  Had CreateKey
\* or RotateKey generated any other plaintext q, the insert would have had
\* the same outcome, the same metadata response, HTTP response and audit
\* event, and the same row but for encrypted_key, which is the output of
\* Encrypt and never the plaintext; ListKeys answers the same whatever keys
\* the rows wrap; and the audit event of a key-returning call is the same
\* whatever key it returns.
C19_PlaintextIndependence ==
    [][\A c \in InFlight, d \in After :
          CallStep(c, d) /\ Done(d) =>
            /\ d.audit # <<>> => DOMAIN d.audit[1] = AuditFields
            /\ c.pc = "insert" =>
                 \A q \in Plaintexts :
                    LET gen == IF c.op = "CreateKey" THEN InitialGeneration
                               ELSE NewGen(c.maxGen)
                        c2 == [c EXCEPT !.plainKey = q, !.encryptedKey = Encrypt(q)]
                        res == Create(store, NewEncryptionKey(c.tenant, gen, c.encryptedKey),
                                      clock + 1)
                        res2 == Create(store, NewEncryptionKey(c2.tenant, gen, c2.encryptedKey),
                                       clock + 1)
                        d2 == IF d.err = NoErr
                              THEN Return(c2, NoErr, KeyMetadata(res2.key))
                              ELSE Return(c2, d.err, Nil)
                    IN  /\ res2.err = res.err
                        /\ d2.err = d.err /\ d2.ret = d.ret
                        /\ d2.resp = d.resp /\ d2.audit = d.audit
                        /\ d.err = NoErr =>
                              /\ DOMAIN d.ret = {"tenant_id", "generation", "status",
                                                 "created_at"}
                              /\ {Unkeyed(r) : r \in res2.store} = {Unkeyed(r) : r \in store'}
                              /\ \A r \in store' \ store :
                                    /\ r.encrypted_key = Encrypt(c.plainKey)
                                    /\ r.encrypted_key \notin Plaintexts
            /\ c.op = "ListKeys" /\ d.err = NoErr =>
                 \A q \in Plaintexts :
                    LET keys2 == FindAllByTenantID(Rewrapped(store, q), c.tenant)
                    IN  /\ d.ret = [keys |-> [i \in 1..Len(keys2) |-> KeyMetadata(keys2[i])]]
                        /\ d.audit = HandlerAudit(c.op, c.tenant, c.generation, NoErr,
                                                  [keys |-> <<>>])
            /\ c.op \in {"GetCurrentKey", "GetKeyByGeneration"} /\ d.err = NoErr =>
                 \A q \in Plaintexts :
                    d.audit = HandlerAudit(c.op, c.tenant, c.generation, NoErr,
                                           [d.ret EXCEPT !.key = q])
      ]_vars

\* two rows wrapping different plaintexts, listed and read back
C19_Witness ==
    /\ \E g, h \in generated : g.plainKey # h.plainKey
    /\ \E c \in InFlight :
          /\ Succeeded(c) /\ c.op = "RotateKey" /\ Len(c.audit) = 1
          /\ \E g \in generated : g.tenant_id = c.tenant /\ g.generation = c.ret.generation
    /\ \E c \in InFlight :
          /\ Succeeded(c) /\ c.op \in {"ListKeys", "GetCurrentKey"} /\ Len(c.audit) = 1

\* ^[A-Za-z0-9_-]{1,64}$
MatchesTenantPattern(str) ==
    /\ Len(str) \in 1..64
    /\ \A i \in 1..Len(str) :
          str[i] \in LowerCase \cup UpperCase \cup Digits \cup {"_", "-"}
\* a decimal numeral of an unsigned integer >= 1
PositiveNumeral(str) ==
    /\ Len(str) >= 1
    /\ \A i \in 1..Len(str) : str[i] \in Digits
    /\ \E i \in 1..Len(str) : str[i] # "0"
\* the request was answered 400 with this code before anything else happened
RejectedWith(d, code) ==
    /\ d.pc = "done" /\ d.resp = [status |-> 400, code |-> code]
    /\ d.ret = Nil /\ d.kmsCalls = 0
    /\ d.key = Nil /\ d.plainKey = Nil /\ d.encryptedKey = Nil

\* C20: on every route the path parameters are validated before the service
\* is called: a request whose tenant_id does not match ^[A-Za-z0-9_-]{1,64}$
\* is answered 400 INVALID_TENANT_ID, and one whose generation is not the
\* numeral of an unsigned integer >= 1 is answered 400 INVALID_GENERATION; in
\* both cases the request is complete on arrival, with no KMS call, no key
\* read and the store, its clock and the generated keys unchanged, and no
\* service step ever acts on it.
C20_ValidationBeforeService ==
    [][/\ started' # started =>
            \E d \in After :
              /\ calls' = calls (+) SetToBag({d})
              /\ ~MatchesTenantPattern(d.tenant) =>
                    /\ RejectedWith(d, "INVALID_TENANT_ID")
                    /\ store' = store /\ clock' = clock /\ generated' = generated
              /\ MatchesTenantPattern(d.tenant) /\ d.op \in GenOps =>
                    \A genStr \in GenInputs :
                       ~PositiveNumeral(genStr) /\ HandleRequest(d.op, d.tenant, genStr) =>
                          /\ RejectedWith(d, "INVALID_GENERATION")
                          /\ store' = store /\ clock' = clock /\ generated' = generated
       /\ started' = started =>
            \A c \in InFlight, d \in After :
               CallStep(c, d) => /\ c.err \notin ValidationErrs
                                 /\ d.err \notin ValidationErrs
      ]_vars

\* with a key stored, a request with a bad generation has been turned away
C20_Witness ==
    /\ store # {}
    /\ \E c \in InFlight :
          /\ Done(c) /\ c.err = ErrInvalidGeneration
          /\ c.resp = [status |-> 400, code |-> "INVALID_GENERATION"]
          /\ c.kmsCalls = 0

\* the statuses the route table lists for each route
RouteStatuses ==
    [CreateKey |-> {201, 400, 409, 500}, ListKeys |-> {200, 400, 500},
     GetCurrentKey |-> {200, 400, 404, 500},
     GetKeyByGeneration |-> {200, 400, 404, 410, 500},
     DisableKey |-> {202, 400, 404, 409, 500},
     RotateKey |-> {201, 400, 404, 500}]
DomainErrs == {ErrKeyNotFound, ErrKeyAlreadyExists, ErrKeyDisabled, ErrKeyAlreadyDisabled}
IsDomainErr(err) == \E e \in DomainErrs : ErrorsIs(err, e)

\* C21: the response of every completed request follows from the outcome of
\* the service: success is 201 for create and rotate, 200 for list, get
\* current and get by generation, 202 for disable; KeyNotFound is 404
\* KEY_NOT_FOUND, KeyAlreadyExists 409 KEY_ALREADY_EXISTS, KeyDisabled 410
\* KEY_DISABLED, KeyAlreadyDisabled 409 KEY_ALREADY_DISABLED; and the status
\* is one of those the route table lists for the route.
C21_StatusMapping ==
    \A c \in BagToSet(calls) :
        Done(c) =>
          /\ c.resp.status \in RouteStatuses[c.op]
          /\ c.err = NoErr =>
                /\ c.op \in {"CreateKey", "RotateKey"} => c.resp.status = 201
                /\ c.op \in {"ListKeys", "GetCurrentKey", "GetKeyByGeneration"} =>
                      c.resp.status = 200
                /\ c.op = "DisableKey" => c.resp.status = 202
          /\ ErrorsIs(c.err, ErrKeyNotFound) =>
                c.resp = [status |-> 404, code |-> "KEY_NOT_FOUND"]
          /\ ErrorsIs(c.err, ErrKeyAlreadyExists) =>
                c.resp = [status |-> 409, code |-> "KEY_ALREADY_EXISTS"]
          /\ ErrorsIs(c.err, ErrKeyDisabled) =>
                c.resp = [status |-> 410, code |-> "KEY_DISABLED"]
          /\ ErrorsIs(c.err, ErrKeyAlreadyDisabled) =>
                c.resp = [status |-> 409, code |-> "KEY_ALREADY_DISABLED"]
          /\ c.resp.status \in {200, 201, 202} => c.err = NoErr
          /\ c.resp.status \in {404, 409, 410} => IsDomainErr(c.err)

\* a 410 and a 409 KEY_ALREADY_DISABLED answered for the same disabled key
C21_Witness ==
    \E c, d \in BagToSet(calls) :
        /\ Done(c) /\ c.op = "GetKeyByGeneration" /\ c.resp.status = 410
        /\ Done(d) /\ d.op = "DisableKey" /\ d.resp.status = 409

\* C22: a service error that is none of the four domain errors is answered
\* by every route with 500 INTERNAL_ERROR and the same fixed message,
\* whatever the underlying error is.
C22_InternalError ==
    \A c \in BagToSet(calls) :
        Done(c) /\ c.err # NoErr /\ c.err \notin ValidationErrs /\ ~IsDomainErr(c.err) =>
          /\ c.resp = [status |-> 500, code |-> "INTERNAL_ERROR"]
          /\ c.message = "internal server error"
          /\ c.ret = Nil

\* a store failure and a KMS failure answered alike
C22_Witness ==
    \E c, d \in BagToSet(calls) :
        /\ Done(c) /\ c.err.cause = DBError /\ c.resp.status = 500
        /\ Done(d) /\ d.err.cause = KMSError /\ d.resp.status = 500
        /\ c.op # d.op /\ c.message = d.message

\* ------------------------------------------------- properties of migrations
Applying(r) == r.op = "ApplyMigrations"
Ended(r) == r.pc = "done"
RecordedVersions == {x.version : x \in recorded}
\* a migration file by its name: not a directory, ends in .sql, and has an
\* underscore; its version is what is in front of the first underscore
HasUnderscore(e) == \E k \in 1..Len(e.name) : e.name[k] = "_"
IsSql(e) == ~e.isDir /\ Len(e.name) >= 4
            /\ SubSeq(e.name, Len(e.name) - 3, Len(e.name)) = <<".", "s", "q", "l">>
WellFormed(entries) == {e \in entries : IsSql(e) /\ HasUnderscore(e)}
\* the .sql files without a version prefix before an underscore
NoVersionPrefix(entries) ==
    {e \in entries : IsSql(e) /\ ~(HasUnderscore(e) /\ e.name[1] # "_")}
VersionOf(e) == SubSeq(e.name, 1, (CHOOSE k \in 1..Len(e.name) :
                                     /\ e.name[k] = "_"
                                     /\ \A j \in 1..(k - 1) : e.name[j] # "_") - 1)
DiskVersions(entries) == {VersionOf(e) : e \in WellFormed(entries)}
\* the three versions in lexicographic order, written out
Rank(version) ==
    CASE version = <<"0", "0", "1">> -> 1
      [] version = <<"1", "0">> -> 2
      [] version = <<"9">> -> 3
      [] OTHER -> 0
Ascending(versions) ==
    \A j, k \in 1..Len(versions) : j < k => Rank(versions[j]) < Rank(versions[k])
\* the step of run r to d
RunMove(r, d) == d # r /\ runs' = (runs (-) SetToBag({r})) (+) SetToBag({d})

\* C23: an ApplyMigrations that follows a successful one on an unchanged
\* directory applies nothing: it returns count 0, executes no SQL and records
\* nothing, and the recorded versions are exactly the versions on disk.
C23_Idempotent ==
    \A r \in Running :
        Applying(r) /\ Ended(r) /\ r.prev.ok
        /\ r.scanned = r.prev.scanned /\ dir = r.scanned =>
          /\ r.appliedCount = 0 /\ r.execs = 0 /\ r.commits = 0
          /\ r.committed = <<>>
          /\ RecordedVersions = DiskVersions(dir)

\* a second run on three applied files returned 0 without an error
C23_Witness ==
    \E r \in Running :
        /\ Applying(r) /\ Ended(r) /\ r.prev.ok /\ r.err = NoErr
        /\ r.scanned = r.prev.scanned /\ dir = r.scanned
        /\ Cardinality(recorded) = 3 /\ r.appliedCount = 0

C25_StopsAtFailure ==
    \A r \in Running :
        /\ r.err # NoErr => Ended(r)
        /\ r.err = ErrMigrationFailed =>
              /\ Applying(r)
              /\ r.i \in 1..Len(r.pendingMigrations)
              /\ r.failedVersion = r.pendingMigrations[r.i].version
              /\ r.commits = r.i - 1 /\ r.execs <= r.i
              /\ r.appliedCount = r.i - 1
              /\ \A k \in 1..(r.i - 1) :
                    /\ r.committed[k] = r.pendingMigrations[k].version
                    /\ r.committed[k] \in RecordedVersions
                    /\ \E e \in effects : e.file = r.pendingMigrations[k].file

\* a run failed on its second pending migration with a third one left
C25_Witness ==
    \E r \in Running :
        /\ Ended(r) /\ r.err = ErrMigrationFailed
        /\ Len(r.pendingMigrations) = 3 /\ r.i = 2
        /\ r.committed = <<r.pendingMigrations[1].version>>
        /\ r.pendingMigrations[3].version \notin RecordedVersions

\* the recorded versions are a prefix of the versions on disk in
\* lexicographic order
RecordedIsPrefix ==
    /\ RecordedVersions \subseteq DiskVersions(dir)
    /\ \A v \in RecordedVersions, w \in DiskVersions(dir) :
          StringLess(w, v) => w \in RecordedVersions

\* C26 as stated: in the state an ApplyMigrations run ends in, successful or
\* aborted, the recorded versions are a prefix of the on-disk list sorted
\* lexicographically by version, and after a successful run they are the
\* whole list.
C26_Original ==
    [][\A r \in Running, d \in BagToSet(runs') :
          RunMove(r, d) /\ ~Ended(r) /\ Ended(d) /\ Applying(d) =>
            /\ RecordedIsPrefix'
            /\ d.err = NoErr => RecordedVersions' = DiskVersions(dir')
      ]_vars

\* C26 amended: as long as every file put into the directory had a version
\* sorting after all versions already on disk, the recorded versions are a
\* prefix of the on-disk list sorted lexicographically by version, after
\* every ApplyMigrations run, successful or aborted; and after a successful
\* run they include every version the run had scanned (the whole list when
\* the directory did not change during the run).
C26_PrefixWhenAddedInOrder ==
    /\ inOrder => RecordedIsPrefix
    /\ \A r \in Running :
          Applying(r) /\ Ended(r) /\ r.err = NoErr =>
            /\ DiskVersions(r.scanned) \subseteq RecordedVersions
            /\ dir = r.scanned => RecordedVersions = DiskVersions(dir)

\* an aborted run left the first of three versions recorded, and a
\* successful run recorded a file that had been added after the others
C26_Witness ==
    /\ inOrder /\ added = 1
    /\ \E r \in Running :
          /\ Applying(r) /\ Ended(r) /\ r.err = NoErr /\ r.commits >= 1
          /\ dir = r.scanned /\ Cardinality(RecordedVersions) >= 2
    /\ \E r \in Running :
          /\ Applying(r) /\ Ended(r) /\ r.err = ErrMigrationFailed

VersionsOf(migrations) == [k \in 1..Len(migrations) |-> migrations[k].version]

\* C27: the pending migrations of a run are in ascending lexicographic order
\* of version and are applied one at a time in that order, each in its own
\* transaction: when the run starts or records the i-th pending migration,
\* exactly the i-1 before it are committed by the run, so a version is
\* committed before any greater version is started.
C27_AscendingOneByOne ==
    \A r \in Running :
        /\ Ascending(VersionsOf(r.pendingMigrations))
        /\ Ascending(r.committed)
        /\ Len(r.committed) <= Len(r.pendingMigrations)
        /\ r.committed = SubSeq(VersionsOf(r.pendingMigrations), 1, Len(r.committed))
        /\ r.execs \in {Len(r.committed), Len(r.committed) + 1}
        /\ r.pc \in {"apply", "record"} => Len(r.committed) = r.i - 1
        /\ r.pc = "record" =>
              /\ r.tx = <<r.pendingMigrations[r.i]>>
              /\ r.execs = Len(r.committed) + 1
        /\ r.pc # "record" => r.tx = <<>>

\* a run committed 001, 10 and 9 in this order
C27_Witness ==
    \E r \in Running :
        r.committed = << <<"0", "0", "1">>, <<"1", "0">>, <<"9">> >>

\* C28: an ApplyMigrations that reads a directory with a .sql file whose name
\* has no version prefix before an underscore (abc.sql, _x.sql) aborts with
\* InvalidMigrationFile without applying anything, and no step of any run
\* takes a committed migration or its record away.
C28_MalformedAborts ==
    [][/\ recorded \subseteq recorded' /\ effects \subseteq effects'
       /\ \A r \in Running, d \in BagToSet(runs') :
            RunMove(r, d) /\ r.pc = "scan" /\ Applying(r)
            /\ NoVersionPrefix(dir) # {} /\ d.scanned = dir =>
               /\ Ended(d) /\ ErrorsIs(d.err, ErrInvalidMigrationFile)
               /\ d.appliedCount = 0 /\ d.execs = 0 /\ d.commits = 0
               /\ recorded' = recorded /\ effects' = effects
      ]_vars

\* C29: GetMigrationStatus returns one entry per migration file of the
\* directory it read, in ascending version order, with status applied and
\* the recorded timestamp exactly when the version is in schema_migrations
\* and pending otherwise; no step of it changes the key store, the
\* directory, schema_migrations or the migrated database.
C29_GetMigrationStatus ==
    [][\A r \in Running, d \in BagToSet(runs') :
          RunMove(r, d) /\ r.op = "GetMigrationStatus" /\ ~Ended(r) =>
            /\ recorded' = recorded /\ effects' = effects
            /\ store' = store /\ dir' = dir
            /\ Ended(d) /\ d.err = NoErr =>
                 /\ Len(d.ret) = Cardinality(WellFormed(d.scanned))
                 /\ {d.ret[k].version : k \in 1..Len(d.ret)} = DiskVersions(d.scanned)
                 /\ Ascending(VersionsOf(d.ret))
                 /\ \A k \in 1..Len(d.ret) :
                       /\ d.ret[k].status \in {"applied", "pending"}
                       /\ d.ret[k].status = "applied" <=>
                             d.ret[k].version \in RecordedVersions
                       /\ d.ret[k].status = "applied" =>
                             [version |-> d.ret[k].version,
                              applied_at |-> d.ret[k].applied_at] \in recorded
                       /\ d.ret[k].status = "pending" => d.ret[k].applied_at = 0
      ]_vars

\* a status of three files, one applied and two pending
C29_Witness ==
    \E r \in Running :
        /\ r.op = "GetMigrationStatus" /\ Ended(r) /\ r.err = NoErr
        /\ Len(r.ret) = 3
        /\ r.ret[1].status = "applied" /\ r.ret[1].applied_at > 0
        /\ r.ret[2].status = "pending" /\ r.ret[3].status = "pending"

\* ---------------------------------------------------- properties of keyctl
\* a required argument is missing or invalid
ArgumentError ==
    \/ cli.badFlag
    \/ /\ cli.cmd \in KeyCmds
       /\ \/ cli.tenantID = ""
          \/ cli.apiURLFlag = "" /\ cli.env = ""
          \/ cli.cmd = "disable" /\ cli.generation = 0

\* C30: keyctl exits with 0 on success, 2 when a required argument is
\* missing or invalid, 3 when the HTTP request could not be transported, 4
\* when the API refused the credentials (401, 403), and 1 on any other
\* failure such as another 4xx/5xx response.
C30_ExitCodes ==
    cli.pc = "exited" =>
        cli.exit = IF ArgumentError THEN 2
                   ELSE IF cli.transportErr THEN 3
                   ELSE IF cli.status \in {401, 403} THEN 4
                   ELSE IF cli.err # "nil" THEN 1
                   ELSE 0

\* ------------------------------------------- further properties of the service
\* the records of a tenant
RecordOfTenant(st, t) == {r \in st : r.tenant_id = t}
\* the record (t, g) of the table
RecordOf(st, t, g) == {r \in st : r.tenant_id = t /\ r.generation = g}

\* C31: a step of a DisableKey(T, g) call that ends it with an error, or that
\* does not end it, leaves the table unchanged; the step that ends it with
\* success changes exactly the status of record (T, g) from active to
\* disabled.
C31_DisableKeyEffect ==
    [][\A c \in InFlight, d \in After :
          CallStep(c, d) /\ c.op = "DisableKey" =>
            /\ ~Succeeded(d) => store' = store
            /\ Succeeded(d) =>
                  \E r \in RecordOf(store, c.tenant, c.generation) :
                     /\ r.status = KeyStatusActive
                     /\ store' = (store \ {r}) \cup
                                   {[r EXCEPT !.status = KeyStatusDisabled,
                                              !.updated_at = clock']}
      ]_vars

\* C34: for every (tenant, generation), of the DisableKey calls on it at most
\* one returns success, whatever the interleaving: of two calls issued on an
\* existing record, when one has succeeded the other ends with
\* KeyAlreadyDisabled (or a store failure), never with success too.
C34_SingleSuccessfulDisable ==
    \A a, b \in InFlight :
        /\ TwoCalls(a, b)
        /\ a.op = "DisableKey" /\ b.op = "DisableKey"
        /\ a.tenant = b.tenant /\ a.generation = b.generation
        /\ a.startStatus # "none" /\ b.startStatus # "none"
        /\ Succeeded(a) /\ Done(b)
        => b.err = ErrKeyAlreadyDisabled \/ b.err.cause = DBError

\* C32: the step in which the KMS call of a request fails ends the request
\* with an error that wraps the KMS failure and with no result: in CreateKey
\* and RotateKey (Encrypt) no record is inserted, the request had written
\* nothing before, and the records and MaxGeneration of the tenant are as
\* they were; in GetCurrentKey and GetKeyByGeneration (Decrypt) no plaintext
\* is returned.
C32_KMSFailure ==
    [][\A c \in InFlight, d \in After :
          CallStep(c, d) /\ d.err.cause = KMSError =>
            /\ c.pc = "start" /\ Done(d)
            /\ d.ret = Nil /\ d.plainKey = Nil /\ d.encryptedKey = Nil
            /\ d.resp = [status |-> 500, code |-> "INTERNAL_ERROR"]
            /\ store' = store /\ generated' = generated
            /\ GetMaxGeneration(store', c.tenant) = GetMaxGeneration(store, c.tenant)
            /\ c.op \in {"CreateKey", "RotateKey"} =>
                  d.err = [ctx |-> "encrypting key", cause |-> KMSError]
            /\ c.op \in {"GetCurrentKey", "GetKeyByGeneration"} =>
                  d.err = [ctx |-> "decrypting key", cause |-> KMSError]
            /\ c.op \in {"CreateKey", "RotateKey", "GetCurrentKey", "GetKeyByGeneration"}
      ]_vars

\* a rotation failed at Encrypt and left the tenant at its generation, and
\* a read of the key failed at Decrypt
C32_Witness ==
    \E a, b \in InFlight :
        /\ a.op = "RotateKey" /\ Done(a) /\ a.err.cause = KMSError
        /\ a.startMax = 1 /\ GetMaxGeneration(store, a.tenant) = 1
        /\ b.op \in {"GetCurrentKey", "GetKeyByGeneration"}
        /\ Done(b) /\ b.err.cause = KMSError /\ b.ret = Nil

\* the codes of the 400 responses of path validation
ValidationCodes == {"INVALID_TENANT_ID", "INVALID_GENERATION"}
\* the responses of a request turned away by path validation
Rejections == {[status |-> 400, code |-> k] : k \in ValidationCodes}

\* C33 as stated: a request rejected by path validation has written an audit
\* event with result FAILED.
C33_Original ==
    \A c \in BagToSet(calls) :
        c.resp \in Rejections =>
            /\ Len(c.audit) >= 1
            /\ c.audit[Len(c.audit)].result = "FAILED"

\* C33 amended: a request rejected by path validation (400 INVALID_TENANT_ID
\* or INVALID_GENERATION) writes no audit event; the audit events that exist
\* belong to requests that passed validation and whose service call has
\* returned, and a FAILED event is never that of a rejected request.
C33_NoAuditOnReject ==
    \A c \in BagToSet(calls) :
        /\ c.resp \in Rejections =>
              /\ c.audit = <<>>
              /\ c.err \in ValidationErrs
        /\ c.audit # <<>> =>
              /\ Done(c)
              /\ c.resp \notin Rejections
              /\ validateTenantID(c.tenant) = NoErr
              /\ c.op \in GenOps => c.generation >= 1

\* a request with a bad tenant_id and one with a bad generation were both
\* answered 400 and neither wrote an audit event
C33_Witness ==
    \E c, d \in BagToSet(calls) :
        /\ c.resp = [status |-> 400, code |-> "INVALID_TENANT_ID"]
        /\ d.resp = [status |-> 400, code |-> "INVALID_GENERATION"]
        /\ c.audit = <<>> /\ d.audit = <<>>

\* every record of the tenant is disabled, and there is at least one
AllDisabled(st, t) ==
    /\ \E r \in st : r.tenant_id = t
    /\ \A r \in st : r.tenant_id = t => r.status = KeyStatusDisabled
\* the highest generation among the records of the tenant
TopGeneration(st, t) ==
    CHOOSE g \in {r.generation : r \in RecordOfTenant(st, t)} :
        \A r \in RecordOfTenant(st, t) : r.generation <= g

\* C35: RotateKey(T) looks at MaxGeneration(T) only. While every generation
\* of T is disabled (GetCurrentKey(T) finds no key), the first step of
\* RotateKey(T) does not answer KeyNotFound: it reads M, the highest
\* generation, and goes on to the insert unless the store, the random
\* source or the KMS fails;
\* a successful insert adds one active record of generation M+1, which is
\* then the key GetCurrentKey(T) finds, and the disabled records are still
\* there, disabled.
C35_RotateWhenAllDisabled ==
    [][\A c \in InFlight, d \in After :
          (/\ c.op = "RotateKey" /\ CallStep(c, d)
           /\ AllDisabled(store, c.tenant)) =>
             LET t == c.tenant
                 M == TopGeneration(store, t) IN
             /\ FindLatestActiveByTenantID(store, t) = Nil
             /\ c.pc = "start" /\ d.err.cause \notin InfraCauses =>
                   /\ d.err = NoErr /\ d.pc = "insert"
                   /\ d.maxGen = M /\ store' = store
             /\ c.pc = "insert" /\ d.err = NoErr =>
                   /\ d.ret.generation = M + 1 /\ d.ret.status = "active"
                   /\ \E r \in store' \ store :
                         /\ store' = store \cup {r}
                         /\ r.tenant_id = t /\ r.generation = M + 1
                         /\ r.status = KeyStatusActive
                         /\ FindLatestActiveByTenantID(store', t) = r
                   /\ \A q \in RecordOfTenant(store, t) :
                         q \in store' /\ q.status = KeyStatusDisabled
      ]_vars

\* generation 1 was disabled before generation 2 was inserted by a RotateKey,
\* and a GetCurrentKey has then returned generation 2
C35_Witness ==
    \E c, g \in InFlight, r1, r2 \in store :
        /\ r1.tenant_id = c.tenant /\ r1.generation = 1
        /\ r1.status = KeyStatusDisabled
        /\ r2.tenant_id = c.tenant /\ r2.generation = 2
        /\ r2.status = KeyStatusActive
        /\ r1.updated_at < r2.created_at
        /\ c.op = "RotateKey" /\ Succeeded(c) /\ c.ret.generation = 2
        /\ g.op = "GetCurrentKey" /\ Succeeded(g)
        /\ g.tenant = c.tenant /\ g.ret.generation = 2

\* the records of the other tenants
RecordsOfOthers(st, t) == {r \in st : r.tenant_id # t}

\* C36: tenant isolation. A step of a request for tenant T leaves the records
\* of every other tenant as they are, and what it answers is determined by
\* the records of T alone: CreateKey is refused exactly when T has a record,
\* RotateKey reads the highest generation of T, an insert fails on the
\* unique index exactly when T has that generation and otherwise adds a
\* record of T, the reads return records of T, ListKeys returns as many
\* entries as T has records, and DisableKey finds and changes a record of T.
C36_TenantIsolation ==
    [][\A c \in InFlight, d \in After :
          CallStep(c, d) =>
            LET t == c.tenant
                own == RecordOfTenant(store, t)
                gens == {r.generation : r \in own}
                plain == d.err.cause \notin InfraCauses IN
            /\ RecordsOfOthers(store', t) = RecordsOfOthers(store, t)
            /\ d.tenant = t
            /\ c.op = "CreateKey" /\ c.pc = "start" /\ plain =>
                  (d.err = ErrKeyAlreadyExists) <=> (own # {})
            /\ c.op = "RotateKey" /\ c.pc = "start" /\ plain =>
                  /\ (d.err = ErrKeyNotFound) <=> (own = {})
                  /\ own # {} => d.maxGen \in gens /\ \A g \in gens : g <= d.maxGen
            /\ c.pc = "insert" /\ d.err.cause # DBError =>
                  LET g == IF c.op = "CreateKey" THEN 1 ELSE c.maxGen + 1 IN
                  /\ (d.err = NoErr) <=> (g \notin gens)
                  /\ d.err = NoErr =>
                        /\ d.ret.tenant_id = t /\ d.ret.generation = g
                        /\ RecordOfTenant(store', t) \ own # {}
                        /\ own \subseteq store'
            /\ c.op = "GetCurrentKey" /\ plain =>
                  LET act == {r \in own : r.status = KeyStatusActive} IN
                  /\ (d.err = ErrKeyNotFound) <=> (act = {})
                  /\ d.err = NoErr =>
                        \E r \in act :
                           /\ \A q \in act : q.generation <= r.generation
                           /\ d.ret = [tenant_id |-> t, generation |-> r.generation,
                                       key |-> r.encrypted_key.wrapped]
            /\ c.op = "GetKeyByGeneration" /\ plain =>
                  /\ (d.err = ErrKeyNotFound) <=> (c.generation \notin gens)
                  /\ d.err = NoErr =>
                        \E r \in own :
                           d.ret = [tenant_id |-> t, generation |-> c.generation,
                                    key |-> r.encrypted_key.wrapped]
            /\ c.op = "ListKeys" /\ plain =>
                  /\ Len(d.ret.keys) = Cardinality(own)
                  /\ \A i \in 1..Len(d.ret.keys) :
                        /\ d.ret.keys[i].tenant_id = t
                        /\ d.ret.keys[i].generation \in gens
            /\ c.op = "DisableKey" /\ c.pc = "start" /\ plain =>
                  /\ (d.err = ErrKeyNotFound) <=> (c.generation \notin gens)
                  /\ d.pc = "update" => d.key \in own
            /\ c.op = "DisableKey" /\ c.pc = "update" =>
                  {r.id : r \in store \ store'} \subseteq {r.id : r \in own}
      ]_vars

\* a tenant was given its first key and listed it, one entry, while another
\* tenant already had a record, which has been disabled
C36_Witness ==
    \E c, l \in InFlight, r1, r2 \in store :
        /\ r1.tenant_id # r2.tenant_id
        /\ r1.created_at < r2.created_at
        /\ r1.status = KeyStatusDisabled
        /\ c.op = "CreateKey" /\ Succeeded(c) /\ c.tenant = r2.tenant_id
        /\ l.op = "ListKeys" /\ Succeeded(l) /\ l.tenant = r2.tenant_id
        /\ Len(l.ret.keys) = 1 /\ Cardinality(store) = 2

ReadOps == {"GetCurrentKey", "GetKeyByGeneration", "ListKeys"}
\* the records of a tenant in the order of their generations
RECURSIVE ByGeneration(_)
ByGeneration(rows) ==
    IF rows = {} THEN <<>>
    ELSE LET lo == CHOOSE r \in rows : \A q \in rows : r.generation <= q.generation
         IN  <<[tenant_id |-> lo.tenant_id, generation |-> lo.generation,
                status |-> lo.status, created_at |-> lo.created_at]>>
             \o ByGeneration(rows \ {lo})
\* what a read answers on a table when neither the store nor the KMS fails
Answer(st, op, t, g) ==
    LET own == RecordOfTenant(st, t)
        act == {r \in own : r.status = KeyStatusActive}
        hit == {r \in own : r.generation = g}
        plain(r) == [err |-> NoErr,
                     ret |-> [tenant_id |-> t, generation |-> r.generation,
                              key |-> r.encrypted_key.wrapped]]
        none(e) == [err |-> e, ret |-> Nil]
    IN  CASE op = "GetCurrentKey" ->
               IF act = {} THEN none(ErrKeyNotFound)
               ELSE plain(CHOOSE r \in act : \A q \in act : q.generation <= r.generation)
          [] op = "GetKeyByGeneration" ->
               IF hit = {} THEN none(ErrKeyNotFound)
               ELSE IF \E r \in hit : r.status = KeyStatusDisabled
                    THEN none(ErrKeyDisabled)
               ELSE plain(CHOOSE r \in hit : TRUE)
          [] op = "ListKeys" -> [err |-> NoErr, ret |-> [keys |-> ByGeneration(own)]]

\* C37: GetCurrentKey, GetKeyByGeneration and ListKeys are read-only. The
\* step of a read ends the request and, whatever the outcome, leaves the
\* table, its clock and the generated keys as they were; unless the store or
\* the KMS fails, what it returns is the answer the table gives for the
\* request, and the table after the step gives the same answer, so a repeat
\* of the read with no write in between returns the same result.
C37_ReadOnly ==
    [][\A c \in InFlight, d \in After :
          CallStep(c, d) /\ c.op \in ReadOps =>
            /\ Done(d)
            /\ store' = store /\ clock' = clock /\ generated' = generated
            /\ d.err.cause \notin InfraCauses =>
                  /\ [err |-> d.err, ret |-> d.ret]
                        = Answer(store, c.op, c.tenant, c.generation)
                  /\ [err |-> d.err, ret |-> d.ret]
                        = Answer(store', c.op, c.tenant, c.generation)
      ]_vars

\* the same key was read twice by generation, and the two answers agree
C37_Witness ==
    \E a, b \in InFlight :
        /\ TwoCalls(a, b)
        /\ a.op = "GetKeyByGeneration" /\ b.op = "GetKeyByGeneration"
        /\ a.tenant = b.tenant /\ a.generation = b.generation
        /\ Succeeded(a) /\ Succeeded(b) /\ a.ret = b.ret
        /\ a.ret.key = Decrypt((CHOOSE r \in store : r.generation = a.generation
                                                     /\ r.tenant_id = a.tenant).encrypted_key)

\* ---------------------------------------- further properties of the migrations
\* C38: the names are validated before anything is applied: a run that read a
\* directory with a .sql file of malformed name (no version prefix before an
\* underscore) has ended with InvalidMigrationFile, whether it is an
\* ApplyMigrations or a GetMigrationStatus, and has applied and recorded
\* nothing (count 0, no statement executed, no commit, no status list), also
\* when well-formed pending files were in the directory.
C38_ValidationPrecedesApplication ==
    \A r \in Running :
        NoVersionPrefix(r.scanned) # {} =>
            /\ Ended(r) /\ ErrorsIs(r.err, ErrInvalidMigrationFile)
            /\ r.appliedCount = 0 /\ r.execs = 0 /\ r.commits = 0
            /\ r.committed = <<>> /\ r.ret = <<>>

\* the versions a run has committed
CommittedBy(r) == {r.committed[k] : k \in 1..Len(r.committed)}
\* two processes under way (possibly in the same state)
TwoRuns(a, b) == a \in Running /\ b \in Running
                 /\ (a # b \/ CopiesIn(a, runs) >= 2)

====
